---- MODULE Spec2Model ----
(***************************************************************************)
(* A model of gpxpy's in-memory GPX document (gpxpy/gpx/*.py) and of the   *)
(* track analytics and serialisation entry points that act on it.          *)
(*                                                                         *)
(* The document is the variable gpx.  Every operation of the program is    *)
(* one action; op records the call that was made last (its name and its    *)
(* arguments), pre the document as it was before that call, and ret what   *)
(* the call returned (or that it raised).  back holds the call made before *)
(* the last one and the document before that call, in the specifications   *)
(* whose properties relate two calls in a row.  Indices in op are Python's *)
(* 0-based indices; sequences of the model are 1-based.                    *)
(***************************************************************************)
EXTENDS Integers, Sequences, FiniteSets, TLC

VARIABLES gpx, op, pre, ret, back

vars == <<gpx, op, pre, ret, back>>

(***************************************************************************)
(* Bounds of the model.                                                    *)
(***************************************************************************)
MaxTracks == 1
MaxSegments == 3
MaxPoints == 3
\* Bits of the significand of a float of the model.
MantissaBits == 2
\* A time of the model is a whole number of ticks; so many ticks make a second.
TicksPerSecond == 2

(***************************************************************************)
(* Python values.                                                          *)
(***************************************************************************)
\* None in a numeric attribute (elevation, time, ...).
None == -1000000
\* None in a string attribute (version, creator, link, ...).
NoneStr == "None"

\* bool(x) of an optional number: None and 0 are false.
Truthy(x) == x # None /\ x # 0
\* bool(s) of an optional string: None and "" are false.
TruthyStr(s) == s # NoneStr /\ s # ""

Abs(x) == IF x < 0 THEN -x ELSE x
Max2(a, b) == IF a >= b THEN a ELSE b
Min2(a, b) == IF a <= b THEN a ELSE b
\* math.ceil(a / float(b)) for b > 0.
Ceil(a, b) == -((-a) \div b)

RECURSIVE SumSeq(_)
SumSeq(s) == IF s = <<>> THEN 0 ELSE Head(s) + SumSeq(Tail(s))

RECURSIVE Flatten(_)
Flatten(ss) == IF ss = <<>> THEN <<>> ELSE Head(ss) \o Flatten(Tail(ss))

Range(s) == {s[i] : i \in 1..Len(s)}

(***************************************************************************)
(* Entities.                                                               *)
(***************************************************************************)
\* GPXTrackPoint.__init__; id is the identity of the Python object.
GPXTrackPoint(id, latitude, longitude, elevation, time) ==
    [id |-> id, latitude |-> latitude, longitude |-> longitude,
     elevation |-> elevation, time |-> time, speed |-> None, name |-> NoneStr,
     link |-> NoneStr, link_text |-> NoneStr, link_type |-> NoneStr]

\* GPXTrackSegment.__init__
GPXTrackSegment(points) == [points |-> points]

\* GPXTrack.__init__ followed by the assignment of its segments.
GPXTrack(segments) ==
    [name |-> NoneStr, link |-> NoneStr, link_text |-> NoneStr, link_type |-> NoneStr,
     segments |-> segments]

\* The empty nsmap.
NoNsmap == [xsi |-> NoneStr, defaultns |-> NoneStr]

\* GPX.__init__
GPX0 ==
    [version |-> NoneStr, creator |-> NoneStr,
     name |-> NoneStr, description |-> NoneStr,
     author_name |-> NoneStr, author_email |-> NoneStr,
     author_link |-> NoneStr, author_link_text |-> NoneStr,
     author_link_type |-> NoneStr,
     copyright_author |-> NoneStr, copyright_year |-> NoneStr,
     copyright_license |-> NoneStr,
     link |-> NoneStr, link_text |-> NoneStr, link_type |-> NoneStr,
     time |-> None, keywords |-> NoneStr,
     waypoints |-> <<>>, tracks |-> <<>>,
     nsmap |-> NoNsmap, schema_locations |-> <<>>]

\* bool(obj) of a GPXTrackSegment: the class defines neither __bool__ nor
\* __len__, so every instance is true, whatever its points.
SegmentTruthy(segment) == TRUE

\* GPX.walk(only_points=True) / GPXTrack.walk: the points in document order.
Track_walk(track) == Flatten([i \in 1..Len(track.segments) |-> track.segments[i].points])
GPX_walk(g) == Flatten([t \in 1..Len(g.tracks) |-> Track_walk(g.tracks[t])])

(***************************************************************************)
(* split / join                                                            *)
(***************************************************************************)
\* A split that leaves the point at point_no to the second half:
\* points[:point_no], points[point_no:].
Segment_split_exclusive(segment, point_no) ==
    <<GPXTrackSegment(SubSeq(segment.points, 1, point_no)),
      GPXTrackSegment(SubSeq(segment.points, point_no + 1, Len(segment.points)))>>

\* GPXTrackSegment.split(point_no): points[:point_no + 1], points[point_no + 1:]
Segment_split(segment, point_no) ==
    <<GPXTrackSegment(SubSeq(segment.points, 1, point_no + 1)),
      GPXTrackSegment(SubSeq(segment.points, point_no + 2, Len(segment.points)))>>

\* The loop of a split that does not add a half without points.
RECURSIVE Track_split_loop_without_empty(_, _, _, _)
Track_split_loop_without_empty(segments, i, track_segment_no, track_point_no) ==
    IF i >= Len(segments) THEN <<>>
    ELSE LET segment == segments[i + 1]
             parts == Segment_split(segment, track_point_no)
             here == IF i = track_segment_no
                     THEN (IF parts[1].points # <<>> THEN <<parts[1]>> ELSE <<>>)
                          \o (IF parts[2].points # <<>> THEN <<parts[2]>> ELSE <<>>)
                     ELSE <<segment>>
         IN here \o Track_split_loop_without_empty(segments, i + 1, track_segment_no,
                                                   track_point_no)

\* The loop of GPXTrack.split over range(len(self.segments)), from index i on.
RECURSIVE Track_split_loop(_, _, _, _)
Track_split_loop(segments, i, track_segment_no, track_point_no) ==
    IF i >= Len(segments) THEN <<>>
    ELSE LET segment == segments[i + 1]
             parts == Segment_split(segment, track_point_no)
             here == IF i = track_segment_no
                     THEN (IF SegmentTruthy(parts[1]) THEN <<parts[1]>> ELSE <<>>)
                          \o (IF SegmentTruthy(parts[2]) THEN <<parts[2]>> ELSE <<>>)
                     ELSE <<segment>>
         IN here \o Track_split_loop(segments, i + 1, track_segment_no, track_point_no)

\* GPXTrack.split(track_segment_no, track_point_no)
Track_split(track, track_segment_no, track_point_no) ==
    [track EXCEPT !.segments =
        Track_split_loop(track.segments, 0, track_segment_no, track_point_no)]

\* GPX.split(track_no, track_segment_no, track_point_no)
GPX_split(g, track_no, track_segment_no, track_point_no) ==
    [g EXCEPT !.tracks[track_no + 1] =
        Track_split(g.tracks[track_no + 1], track_segment_no, track_point_no)]

\* GPXTrackSegment.join(track_segment): self.points += track_segment.points
Segment_join(segment, track_segment) ==
    [segment EXCEPT !.points = segment.points \o track_segment.points]

\* "if not track_segment_no_2: track_segment_no_2 = track_segment_no + 1":
\* None and 0 are both false.
Join_second(track_segment_no, track_segment_no_2) ==
    IF ~Truthy(track_segment_no_2) THEN track_segment_no + 1 ELSE track_segment_no_2

\* The loop of GPXTrack.join over range(len(self.segments)), from index i on.
RECURSIVE Track_join_loop(_, _, _, _)
Track_join_loop(segments, i, track_segment_no, track_segment_no_2) ==
    IF i >= Len(segments) THEN <<>>
    ELSE LET segment == segments[i + 1]
             here == IF i = track_segment_no
                     THEN <<Segment_join(segment, segments[track_segment_no_2 + 1])>>
                     ELSE IF i = track_segment_no_2 THEN <<>>
                     ELSE <<segment>>
         IN here \o Track_join_loop(segments, i + 1, track_segment_no, track_segment_no_2)

\* GPXTrack.join(track_segment_no, track_segment_no_2=None)
Track_join(track, track_segment_no, track_segment_no_2) ==
    LET second == Join_second(track_segment_no, track_segment_no_2)
    IN IF second >= Len(track.segments) THEN track
       ELSE [track EXCEPT !.segments =
                Track_join_loop(track.segments, 0, track_segment_no, second)]

(***************************************************************************)
(* Documents of the structural specification: every point is a bare        *)
(* location, told apart by its identity only.                              *)
(***************************************************************************)
\* n fresh points with identities first, first + 1, ...
BarePoints(first, n) == [i \in 1..n |-> GPXTrackPoint(first + i - 1, 0, 0, None, None)]

\* A track whose segments hold lens[1], lens[2], ... points, identities from first.
RECURSIVE BareSegments(_, _)
BareSegments(first, lens) ==
    IF lens = <<>> THEN <<>>
    ELSE <<GPXTrackSegment(BarePoints(first, Head(lens)))>>
         \o BareSegments(first + Head(lens), Tail(lens))

RECURSIVE BareTracks(_, _)
BareTracks(first, shape) ==
    IF shape = <<>> THEN <<>>
    ELSE <<GPXTrack(BareSegments(first, Head(shape)))>>
         \o BareTracks(first + SumSeq(Head(shape)), Tail(shape))

\* The shapes of a track: 1 .. MaxSegments - 1 segments; of a document: 1 ..
\* MaxTracks tracks holding at most MaxPoints points together.
TrackShapes ==
    {lens \in UNION {[1..n -> 0..MaxPoints] : n \in 1..(MaxSegments - 1)} :
        SumSeq(lens) <= MaxPoints}
DocShapes ==
    {shape \in UNION {[1..n -> TrackShapes] : n \in 1..MaxTracks} :
        SumSeq([t \in 1..Len(shape) |-> SumSeq(shape[t])]) <= MaxPoints}

NoOp == [name |-> "init"]

\* No call before the last one.
NoBack == [op |-> NoOp, pre |-> GPX0]

\* What a call gave back: a value, or the exception it raised.
Returned(value) == [raised |-> NoneStr, value |-> value]
Raised(exception) == [raised |-> exception, value |-> None]

Init ==
    /\ \E shape \in DocShapes : gpx = [GPX0 EXCEPT !.tracks = BareTracks(1, shape)]
    /\ op = NoOp
    /\ pre = gpx
    /\ ret = Returned(None)
    /\ back = NoBack

\* gpx.split(track_no, track_segment_no, track_point_no) with valid indices.
Split ==
    \E track_no \in 0..(Len(gpx.tracks) - 1) :
      \E track_segment_no \in 0..(Len(gpx.tracks[track_no + 1].segments) - 1) :
        \E track_point_no \in
              0..(Len(gpx.tracks[track_no + 1].segments[track_segment_no + 1].points) - 1) :
          /\ Len(gpx.tracks[track_no + 1].segments) < MaxSegments
          /\ gpx' = GPX_split(gpx, track_no, track_segment_no, track_point_no)
          /\ op' = [name |-> "split", track_no |-> track_no,
                    track_segment_no |-> track_segment_no,
                    track_point_no |-> track_point_no]
          /\ pre' = gpx
          /\ ret' = Returned(None)
          /\ UNCHANGED back

\* gpx.tracks[track_no].join(track_segment_no, track_segment_no_2) with a valid
\* first index and a second index that is valid or omitted (None); joining a
\* segment with itself is left out.
Join ==
    \E track_no \in 0..(Len(gpx.tracks) - 1) :
      \E track_segment_no \in 0..(Len(gpx.tracks[track_no + 1].segments) - 1) :
        \E track_segment_no_2 \in
              (0..(Len(gpx.tracks[track_no + 1].segments) - 1)) \cup {None} :
          /\ track_segment_no_2 # track_segment_no
          /\ gpx' = [gpx EXCEPT !.tracks[track_no + 1] =
                        Track_join(gpx.tracks[track_no + 1], track_segment_no,
                                   track_segment_no_2)]
          /\ op' = [name |-> "join", track_no |-> track_no,
                    track_segment_no |-> track_segment_no,
                    track_segment_no_2 |-> track_segment_no_2]
          /\ pre' = gpx
          /\ ret' = Returned(None)
          /\ UNCHANGED back

Next == Split \/ Join

Spec == Init /\ [][Next]_vars

(***************************************************************************)
(* Specification SpecRestore: track.split and track.join with the next     *)
(* segment, on the documents of Spec; back holds the call before the last. *)
(***************************************************************************)
\* gpx.tracks[track_no].split(track_segment_no, track_point_no) with valid
\* indices.
TrackSplit ==
    \E track_no \in 0..(Len(gpx.tracks) - 1) :
      \E track_segment_no \in 0..(Len(gpx.tracks[track_no + 1].segments) - 1) :
        \E track_point_no \in
              0..(Len(gpx.tracks[track_no + 1].segments[track_segment_no + 1].points) - 1) :
          /\ Len(gpx.tracks[track_no + 1].segments) < MaxSegments
          /\ gpx' = [gpx EXCEPT !.tracks[track_no + 1] =
                        Track_split(gpx.tracks[track_no + 1], track_segment_no,
                                    track_point_no)]
          /\ op' = [name |-> "split", track_no |-> track_no,
                    track_segment_no |-> track_segment_no,
                    track_point_no |-> track_point_no]
          /\ pre' = gpx
          /\ ret' = Returned(None)
          /\ back' = [op |-> op, pre |-> pre]

\* gpx.tracks[track_no].join(track_segment_no) with a valid index.
TrackJoinNext ==
    \E track_no \in 0..(Len(gpx.tracks) - 1) :
      \E track_segment_no \in 0..(Len(gpx.tracks[track_no + 1].segments) - 1) :
        /\ gpx' = [gpx EXCEPT !.tracks[track_no + 1] =
                      Track_join(gpx.tracks[track_no + 1], track_segment_no, None)]
        /\ op' = [name |-> "join", track_no |-> track_no,
                  track_segment_no |-> track_segment_no,
                  track_segment_no_2 |-> None]
        /\ pre' = gpx
        /\ ret' = Returned(None)
        /\ back' = [op |-> op, pre |-> pre]

NextRestore == TrackSplit \/ TrackJoinNext

SpecRestore == Init /\ [][NextRestore]_vars

(***************************************************************************)
(* Geography primitives (gpxpy.geo).  Locations lie on a grid of metres;   *)
(* the distance between two of them is the length of the grid path.        *)
(***************************************************************************)
\* mod_geo.distance(lat_1, lon_1, None, lat_2, lon_2, None)
distance(latitude_1, longitude_1, latitude_2, longitude_2) ==
    Abs(latitude_1 - latitude_2) + Abs(longitude_1 - longitude_2)

\* Location.distance_2d
distance_2d(p, q) == distance(p.latitude, p.longitude, q.latitude, q.longitude)

\* Location.distance_3d: the elevations count when both are known.
distance_3d(p, q) ==
    IF p.elevation = None \/ q.elevation = None
    THEN distance_2d(p, q)
    ELSE distance_2d(p, q) + Abs(p.elevation - q.elevation)

\* mod_geo.length_3d(points): the length of the polyline.
length_3d(points) ==
    SumSeq([i \in 1..(Len(points) - 1) |-> distance_3d(points[i], points[i + 1])])

\* GPXTrackSegment.length_3d, GPXTrack.length_3d, GPX.length_3d
Segment_length_3d(segment) == length_3d(segment.points)
Track_length_3d(track) ==
    SumSeq([i \in 1..Len(track.segments) |-> Segment_length_3d(track.segments[i])])
GPX_length_3d(g) == SumSeq([t \in 1..Len(g.tracks) |-> Track_length_3d(g.tracks[t])])

(***************************************************************************)
(* reduce_points                                                           *)
(***************************************************************************)
\* A scan that measures each point from the point before it, kept or not.
RECURSIVE Segment_reduce_loop_from_previous(_, _, _, _)
Segment_reduce_loop_from_previous(points, i, reduced, min_distance) ==
    IF i > Len(points) THEN reduced
    ELSE IF reduced # <<>> /\ distance_3d(points[i - 1], points[i]) < min_distance
    THEN Segment_reduce_loop_from_previous(points, i + 1, reduced, min_distance)
    ELSE Segment_reduce_loop_from_previous(points, i + 1, Append(reduced, points[i]),
                                           min_distance)

\* The loop of GPXTrackSegment.reduce_points from the point at index i
\* (1-based) on; reduced holds the points kept so far.
RECURSIVE Segment_reduce_loop(_, _, _, _)
Segment_reduce_loop(points, i, reduced, min_distance) ==
    IF i > Len(points) THEN reduced
    ELSE LET point == points[i]
         IN IF reduced # <<>>
            THEN IF distance_3d(reduced[Len(reduced)], point) >= min_distance
                 THEN Segment_reduce_loop(points, i + 1, Append(reduced, point), min_distance)
                 ELSE Segment_reduce_loop(points, i + 1, reduced, min_distance)
            ELSE Segment_reduce_loop(points, i + 1, Append(reduced, point), min_distance)

\* A scan that starts at the second point: the first point is never looked at.
Segment_reduce_points_from_second(segment, min_distance) ==
    [segment EXCEPT !.points = Segment_reduce_loop(segment.points, 2, <<>>, min_distance)]

\* GPXTrackSegment.reduce_points(min_distance)
Segment_reduce_points(segment, min_distance) ==
    [segment EXCEPT !.points = Segment_reduce_loop(segment.points, 1, <<>>, min_distance)]

\* GPXTrack.reduce_points(min_distance)
Track_reduce_points(track, min_distance) ==
    [track EXCEPT !.segments =
        [i \in 1..Len(track.segments) |->
            Segment_reduce_points(track.segments[i], min_distance)]]

\* reduce_points without the test of max_points_no against 2.
GPX_reduce_points_any_target(g, max_points_no, min_distance) ==
    IF max_points_no = None /\ min_distance = None
    THEN [gpx |-> g, ret |-> Raised("ValueError")]
    ELSE IF /\ max_points_no # None
            /\ Len(GPX_walk(g)) <= max_points_no
            /\ ~Truthy(min_distance)
    THEN [gpx |-> g, ret |-> Returned(None)]
    ELSE LET length == GPX_length_3d(g)
             min_distance_0 == IF Truthy(min_distance) THEN min_distance ELSE 0
             max_points_no_0 == IF Truthy(max_points_no) THEN max_points_no ELSE 1000000000
             min_distance_1 == Max2(min_distance_0, Ceil(length, max_points_no_0))
         IN [gpx |-> [g EXCEPT !.tracks =
                        [t \in 1..Len(g.tracks) |->
                            Track_reduce_points(g.tracks[t], min_distance_1)]],
             ret |-> Returned(None)]

\* GPX.reduce_points(max_points_no=None, min_distance=None): the document
\* afterwards and the exception raised, if any.
GPX_reduce_points(g, max_points_no, min_distance) ==
    IF max_points_no = None /\ min_distance = None
    THEN [gpx |-> g, ret |-> Raised("ValueError")]
    ELSE IF max_points_no # None /\ max_points_no < 2
    THEN [gpx |-> g, ret |-> Raised("ValueError")]
    ELSE IF /\ max_points_no # None
            /\ Len(GPX_walk(g)) <= max_points_no
            /\ ~Truthy(min_distance)
    THEN [gpx |-> g, ret |-> Returned(None)]
    ELSE LET length == GPX_length_3d(g)
             min_distance_0 == IF Truthy(min_distance) THEN min_distance ELSE 0
             max_points_no_0 == IF Truthy(max_points_no) THEN max_points_no ELSE 1000000000
             min_distance_1 == Max2(min_distance_0, Ceil(length, max_points_no_0))
         IN [gpx |-> [g EXCEPT !.tracks =
                        [t \in 1..Len(g.tracks) |->
                            Track_reduce_points(g.tracks[t], min_distance_1)]],
             ret |-> Returned(None)]

(***************************************************************************)
(* Documents with located points: one or two tracks that hold two segments *)
(* between them and at most MaxPoints points, all on one meridian.         *)
(***************************************************************************)
\* The sequences of n points with identities first, first + 1, ...
\* whose <<latitude, elevation, time>> or <<latitude, elevation, time,
\* longitude>> are drawn from Attributes; the longitude is 0 if not given.
PointSeqs(first, n, Attributes) ==
    {[i \in 1..n |->
        [GPXTrackPoint(first + i - 1, f[i][1],
                       IF Len(f[i]) > 3 THEN f[i][4] ELSE 0, f[i][2], f[i][3])
            EXCEPT !.speed = IF Len(f[i]) > 4 THEN f[i][5] ELSE None]] :
        f \in [1..n -> Attributes]}

\* The two segments in one track, or each in a track of its own.
Layout(layout, points_1, points_2) ==
    IF layout = 1
    THEN <<GPXTrack(<<GPXTrackSegment(points_1), GPXTrackSegment(points_2)>>)>>
    ELSE <<GPXTrack(<<GPXTrackSegment(points_1)>>), GPXTrack(<<GPXTrackSegment(points_2)>>)>>

LocatedDocs(Attributes) ==
    UNION {UNION {
        {[GPX0 EXCEPT !.tracks = Layout(layout, points_1, points_2)] :
            layout \in {1, 2},
            points_1 \in PointSeqs(1, n_1, Attributes),
            points_2 \in PointSeqs(n_1 + 1, n_2, Attributes)} :
        n_2 \in 0..(MaxPoints - n_1)} : n_1 \in 0..MaxPoints}

(***************************************************************************)
(* Specification SpecReduce: reduce_points at the three levels.            *)
(***************************************************************************)
\* <<latitude, elevation, time>> of the points, and the distances asked for.
ReduceAttributes == {<<0, None, None>>, <<1, None, None>>, <<0, 0, None>>, <<1, 2, None>>}
ReduceDistances == {0, 1, 3}

InitReduce ==
    /\ gpx \in LocatedDocs(ReduceAttributes)
    /\ op = NoOp
    /\ pre = gpx
    /\ ret = Returned(None)
    /\ back = NoBack

\* gpx.reduce_points(max_points_no, min_distance)
ReducePoints ==
    \E max_points_no \in {None, 0, 1, 2, MaxPoints} :
      \E min_distance \in {None} \cup ReduceDistances :
        LET result == GPX_reduce_points(gpx, max_points_no, min_distance)
        IN /\ gpx' = result.gpx
           /\ ret' = result.ret
           /\ op' = [name |-> "reduce_points", level |-> "gpx",
                     track_no |-> None, track_segment_no |-> None,
                     max_points_no |-> max_points_no, min_distance |-> min_distance]
           /\ pre' = gpx
           /\ UNCHANGED back

\* gpx.tracks[track_no].reduce_points(min_distance)
TrackReducePoints ==
    \E track_no \in 0..(Len(gpx.tracks) - 1) :
      \E min_distance \in ReduceDistances :
        /\ gpx' = [gpx EXCEPT !.tracks[track_no + 1] =
                      Track_reduce_points(gpx.tracks[track_no + 1], min_distance)]
        /\ ret' = Returned(None)
        /\ op' = [name |-> "reduce_points", level |-> "track",
                  track_no |-> track_no, track_segment_no |-> None,
                  max_points_no |-> None, min_distance |-> min_distance]
        /\ pre' = gpx
        /\ UNCHANGED back

\* gpx.tracks[track_no].segments[track_segment_no].reduce_points(min_distance)
SegmentReducePoints ==
    \E track_no \in 0..(Len(gpx.tracks) - 1) :
      \E track_segment_no \in 0..(Len(gpx.tracks[track_no + 1].segments) - 1) :
        \E min_distance \in ReduceDistances :
          /\ gpx' = [gpx EXCEPT !.tracks[track_no + 1].segments[track_segment_no + 1] =
                        Segment_reduce_points(
                            gpx.tracks[track_no + 1].segments[track_segment_no + 1],
                            min_distance)]
          /\ ret' = Returned(None)
          /\ op' = [name |-> "reduce_points", level |-> "segment",
                    track_no |-> track_no, track_segment_no |-> track_segment_no,
                    max_points_no |-> None, min_distance |-> min_distance]
          /\ pre' = gpx
        /\ UNCHANGED back

NextReduce == ReducePoints \/ TrackReducePoints \/ SegmentReducePoints

SpecReduce == InitReduce /\ [][NextReduce]_vars

(***************************************************************************)
(* Floats.  A float of the model is an integer m * 2^e with                *)
(* |m| < 2^MantissaBits and e >= 0; an arithmetic result is rounded to the *)
(* nearest float, ties to the even significand, as Python's float          *)
(* arithmetic rounds (with 53 bits).                                       *)
(***************************************************************************)
RECURSIVE Pow2(_)
Pow2(n) == IF n <= 0 THEN 1 ELSE 2 * Pow2(n - 1)

\* The exponent of the binade of a (a >= 0), from e on.
RECURSIVE Exponent(_, _)
Exponent(a, e) == IF a < Pow2(MantissaBits + e) THEN e ELSE Exponent(a, e + 1)

RoundToFloat(x) ==
    LET a == Abs(x)
        quantum == Pow2(Exponent(a, 0))
        m == a \div quantum
        r == a % quantum
        rounded == IF 2 * r > quantum \/ (2 * r = quantum /\ m % 2 = 1) THEN m + 1 ELSE m
    IN IF x < 0 THEN -(rounded * quantum) ELSE rounded * quantum

\* x + y on floats.
float_add(x, y) == RoundToFloat(x + y)

(***************************************************************************)
(* add_elevation                                                           *)
(***************************************************************************)
\* The adjustment without the test for a missing elevation: None counts as 0.
Point_add_elevation_unguarded(track_point, delta) ==
    [track_point EXCEPT !.elevation =
        IF track_point.elevation = None THEN delta ELSE float_add(track_point.elevation, delta)]

\* "if track_point.elevation is not None: track_point.elevation += delta"
Point_add_elevation(track_point, delta) ==
    IF track_point.elevation # None
    THEN [track_point EXCEPT !.elevation = float_add(track_point.elevation, delta)]
    ELSE track_point

\* GPXTrackSegment.add_elevation(delta)
Segment_add_elevation(segment, delta) ==
    IF ~Truthy(delta) THEN segment
    ELSE [segment EXCEPT !.points =
            [i \in 1..Len(segment.points) |-> Point_add_elevation(segment.points[i], delta)]]

\* GPXTrack.add_elevation(delta)
Track_add_elevation(track, delta) ==
    [track EXCEPT !.segments =
        [i \in 1..Len(track.segments) |-> Segment_add_elevation(track.segments[i], delta)]]

\* GPX.add_elevation(delta)
GPX_add_elevation(g, delta) ==
    [g EXCEPT !.tracks = [t \in 1..Len(g.tracks) |-> Track_add_elevation(g.tracks[t], delta)]]

(***************************************************************************)
(* Specification SpecElevation: add_elevation on documents of two          *)
(* segments of one point each, elevations and deltas floats.               *)
(***************************************************************************)
\* The largest elevation the model follows.
ElevationRange == Pow2(MantissaBits)

ElevationAttributes == {<<0, e, None>> : e \in {None, 0, 1, 3}}
ElevationDeltas == {0, 1, -1, Pow2(MantissaBits), -Pow2(MantissaBits)}

InitElevation ==
    /\ \E layout \in {1, 2} :
         \E points_1 \in PointSeqs(1, 1, ElevationAttributes) :
           \E points_2 \in PointSeqs(2, 1, ElevationAttributes) :
             gpx = [GPX0 EXCEPT !.tracks = Layout(layout, points_1, points_2)]
    /\ op = NoOp
    /\ pre = gpx
    /\ ret = Returned(None)
    /\ back = NoBack

InElevationRange(g) ==
    \A i \in 1..Len(GPX_walk(g)) :
        GPX_walk(g)[i].elevation # None => Abs(GPX_walk(g)[i].elevation) <= ElevationRange

\* gpx.add_elevation(delta)
AddElevation ==
    \E delta \in ElevationDeltas :
        /\ InElevationRange(GPX_add_elevation(gpx, delta))
        /\ gpx' = GPX_add_elevation(gpx, delta)
        /\ ret' = Returned(None)
        /\ op' = [name |-> "add_elevation", level |-> "gpx", track_no |-> None,
                  track_segment_no |-> None, delta |-> delta]
        /\ pre' = gpx
        /\ back' = [op |-> op, pre |-> pre]

\* gpx.tracks[track_no].segments[track_segment_no].add_elevation(delta)
SegmentAddElevation ==
    \E track_no \in 0..(Len(gpx.tracks) - 1) :
      \E track_segment_no \in 0..(Len(gpx.tracks[track_no + 1].segments) - 1) :
        \E delta \in ElevationDeltas :
          LET after == [gpx EXCEPT !.tracks[track_no + 1].segments[track_segment_no + 1] =
                            Segment_add_elevation(
                                gpx.tracks[track_no + 1].segments[track_segment_no + 1],
                                delta)]
          IN /\ InElevationRange(after)
             /\ gpx' = after
             /\ ret' = Returned(None)
             /\ op' = [name |-> "add_elevation", level |-> "segment", track_no |-> track_no,
                       track_segment_no |-> track_segment_no, delta |-> delta]
             /\ pre' = gpx
             /\ back' = [op |-> op, pre |-> pre]

NextElevation == AddElevation \/ SegmentAddElevation

SpecElevation == InitElevation /\ [][NextElevation]_vars

(***************************************************************************)
(* smooth.  Latitudes, longitudes and elevations are whole numbers of the  *)
(* model's unit; a smoothed value is rounded to the nearest whole number.  *)
(* An average is kept as the fraction num / den, and a comparison with a   *)
(* threshold is made on the cross products.                                *)
(***************************************************************************)
\* SMOOTHING_RATIO = (0.4, 0.2, 0.4), in tenths.
SMOOTHING_RATIO == <<4, 2, 4>>

\* SMOOTHING_RATIO[0] * a + SMOOTHING_RATIO[1] * b + SMOOTHING_RATIO[2] * c
Smoothed(a, b, c) ==
    (SMOOTHING_RATIO[1] * a + SMOOTHING_RATIO[2] * b + SMOOTHING_RATIO[3] * c + 5) \div 10

\* x < 1.75 * average
Below_2d_threshold(x, average) == 100 * x * average.den < 175 * average.num
\* x < average * 5
Below_elevation_threshold(x, average) == x * average.den < 5 * average.num

\* avg_distance: 0 unless remove_extremes.
Smooth_avg_distance(points, remove_extremes) ==
    LET distances == [i \in 1..(Len(points) - 1) |-> distance_2d(points[i + 1], points[i])]
    IN IF remove_extremes /\ distances # <<>>
       THEN [num |-> SumSeq(distances), den |-> Len(distances)]
       ELSE [num |-> 0, den |-> 1]

\* avg_elevation_delta: 1 unless remove_extremes and two adjacent points
\* have an elevation.
Smooth_avg_elevation_delta(points, remove_extremes) ==
    LET both == {i \in 2..Len(points) :
                    points[i].elevation # None /\ points[i - 1].elevation # None}
        elevations_delta == [i \in 1..(Len(points) - 1) |->
            IF (i + 1) \in both
            THEN Abs(points[i + 1].elevation - points[i].elevation) ELSE 0]
    IN IF remove_extremes /\ both # {}
       THEN [num |-> SumSeq(elevations_delta), den |-> Cardinality(both)]
       ELSE [num |-> 1, den |-> 1]

\* One pass of the loop, for the point at i (1-based, 1 < i < Len(points)):
\* the point as the pass leaves it, and whether the pass drops it.
Smooth_point(points, i, vertical, horizontal, remove_extremes) ==
    LET previous == points[i - 1]
        point == points[i]
        next == points[i + 1]
        avg_distance == Smooth_avg_distance(points, remove_extremes)
        avg_elevation_delta == Smooth_avg_elevation_delta(points, remove_extremes)
        smooth_elevation == /\ vertical
                            /\ Truthy(previous.elevation)
                            /\ Truthy(point.elevation)
                            /\ Truthy(next.elevation)
        new_elevation == Smoothed(previous.elevation, point.elevation, next.elevation)
        removed_vertical ==
            /\ smooth_elevation
            /\ remove_extremes
            /\ ~ /\ Below_elevation_threshold(
                        Min2(Abs(point.elevation - previous.elevation),
                             Abs(point.elevation - next.elevation)),
                        avg_elevation_delta)
                 /\ Below_2d_threshold(Abs(point.elevation - new_elevation), avg_distance)
        new_latitude == Smoothed(previous.latitude, point.latitude, next.latitude)
        new_longitude == Smoothed(previous.longitude, point.longitude, next.longitude)
        d1 == distance(previous.latitude, previous.longitude, point.latitude, point.longitude)
        d2 == distance(next.latitude, next.longitude, point.latitude, point.longitude)
        d == distance(previous.latitude, previous.longitude, next.latitude, next.longitude)
        removed_horizontal ==
            /\ horizontal
            /\ 2 * (d1 + d2) > 3 * d
            /\ remove_extremes
            /\ ~Below_2d_threshold(
                    distance(point.latitude, point.longitude, new_latitude, new_longitude),
                    avg_distance)
    IN [point |->
            [point EXCEPT
                !.elevation = IF smooth_elevation /\ ~remove_extremes
                              THEN new_elevation ELSE @,
                !.latitude = IF horizontal /\ ~remove_extremes THEN new_latitude ELSE @,
                !.longitude = IF horizontal /\ ~remove_extremes THEN new_longitude ELSE @],
        point_removed |-> removed_vertical \/ removed_horizontal]

\* The passes of the loop from i on; kept is what they appended so far.
RECURSIVE Smooth_loop(_, _, _, _, _, _)
Smooth_loop(points, i, kept, vertical, horizontal, remove_extremes) ==
    IF i > Len(points) - 1 THEN kept
    ELSE LET pass == Smooth_point(points, i, vertical, horizontal, remove_extremes)
         IN Smooth_loop(points, i + 1,
                        IF pass.point_removed THEN kept ELSE Append(kept, pass.point),
                        vertical, horizontal, remove_extremes)

\* "if len(self.points) <= 2: return"
Smooth_too_short_below_3(points) == Len(points) <= 2

\* "if len(self.points) <= 3: return"
Smooth_too_short(points) == Len(points) <= 3

\* The list without the append of the last point after the loop.
Smooth_new_track_points_without_last(points, vertical, horizontal, remove_extremes) ==
    Smooth_loop(points, 2, <<points[1]>>, vertical, horizontal, remove_extremes)

\* new_track_points: the first point, what the loop kept, the last point.
Smooth_new_track_points(points, vertical, horizontal, remove_extremes) ==
    Append(Smooth_loop(points, 2, <<points[1]>>, vertical, horizontal, remove_extremes),
           points[Len(points)])

\* GPXTrackSegment.smooth(vertical, horizontal, remove_extremes)
Segment_smooth(segment, vertical, horizontal, remove_extremes) ==
    IF Smooth_too_short(segment.points) THEN segment
    ELSE [segment EXCEPT !.points =
            Smooth_new_track_points(segment.points, vertical, horizontal, remove_extremes)]

\* GPXTrack.smooth(vertical, horizontal, remove_extremes)
Track_smooth(track, vertical, horizontal, remove_extremes) ==
    [track EXCEPT !.segments = [i \in 1..Len(track.segments) |->
        Segment_smooth(track.segments[i], vertical, horizontal, remove_extremes)]]

\* GPX.smooth(vertical, horizontal, remove_extremes)
GPX_smooth(g, vertical, horizontal, remove_extremes) ==
    [g EXCEPT !.tracks = [t \in 1..Len(g.tracks) |->
        Track_smooth(g.tracks[t], vertical, horizontal, remove_extremes)]]

(***************************************************************************)
(* Specification SpecSmooth: smooth on documents of one track that holds a *)
(* segment of 2 to MaxPoints + 1 points and a segment without points.      *)
(***************************************************************************)
\* <<latitude, elevation, time>> of the points.
SmoothAttributes == {<<0, 1, None>>, <<10, 11, None>>, <<0, None, None>>}

InitSmooth ==
    /\ \E n \in 2..(MaxPoints + 1) :
         \E points_1 \in PointSeqs(1, n, SmoothAttributes) :
           gpx = [GPX0 EXCEPT !.tracks = Layout(1, points_1, <<>>)]
    /\ op = NoOp
    /\ pre = gpx
    /\ ret = Returned(None)
    /\ back = NoBack

\* gpx.smooth(vertical, horizontal, remove_extremes)
Smooth ==
    \E vertical \in BOOLEAN, horizontal \in BOOLEAN, remove_extremes \in BOOLEAN :
        /\ gpx' = GPX_smooth(gpx, vertical, horizontal, remove_extremes)
        /\ ret' = Returned(None)
        /\ op' = [name |-> "smooth", level |-> "gpx", track_no |-> None,
                  track_segment_no |-> None, vertical |-> vertical,
                  horizontal |-> horizontal, remove_extremes |-> remove_extremes]
        /\ pre' = gpx
        /\ UNCHANGED back

\* gpx.tracks[track_no].segments[track_segment_no].smooth(vertical, horizontal, remove_extremes)
SegmentSmooth ==
    \E track_no \in 0..(Len(gpx.tracks) - 1) :
      \E track_segment_no \in 0..(Len(gpx.tracks[track_no + 1].segments) - 1) :
        \E vertical \in BOOLEAN, horizontal \in BOOLEAN, remove_extremes \in BOOLEAN :
          /\ gpx' = [gpx EXCEPT !.tracks[track_no + 1].segments[track_segment_no + 1] =
                        Segment_smooth(gpx.tracks[track_no + 1].segments[track_segment_no + 1],
                                       vertical, horizontal, remove_extremes)]
          /\ ret' = Returned(None)
          /\ op' = [name |-> "smooth", level |-> "segment", track_no |-> track_no,
                    track_segment_no |-> track_segment_no, vertical |-> vertical,
                    horizontal |-> horizontal, remove_extremes |-> remove_extremes]
          /\ pre' = gpx
          /\ UNCHANGED back

NextSmooth == Smooth \/ SegmentSmooth

SpecSmooth == InitSmooth /\ [][NextSmooth]_vars

(***************************************************************************)
(* get_moving_data.  A datetime is a number of ticks, a timedelta the      *)
(* difference of two.                                                      *)
(***************************************************************************)
\* utils.total_seconds(timedelta): days * 86400 + seconds, the microseconds
\* of the timedelta left out.
total_seconds(timedelta) == timedelta \div TicksPerSecond

DEFAULT_STOPPED_SPEED_THRESHOLD == 1

\* MovingData before the estimate of the maximal speed.
MovingData(moving_time, stopped_time, moving_distance, stopped_distance, speeds_and_distances) ==
    [moving_time |-> moving_time, stopped_time |-> stopped_time,
     moving_distance |-> moving_distance, stopped_distance |-> stopped_distance,
     speeds_and_distances |-> speeds_and_distances]

\* The pass of the loop for points[i] (1-based, i >= 2) on the totals so far.
Moving_data_pass(points, i, data, stopped_speed_threshold) ==
    LET previous == points[i - 1]
        point == points[i]
        timedelta == point.time - previous.time
        distance_0 == IF Truthy(point.elevation) /\ Truthy(previous.elevation)
                      THEN distance_3d(point, previous)
                      ELSE distance_2d(point, previous)
        seconds == total_seconds(timedelta)
        \* speed_kmh <= stopped_speed_threshold, speed_kmh being
        \* (distance / 1000.) / (seconds / 60. ** 2) when seconds > 0, else 0
        stopped == IF seconds > 0
                   THEN distance_0 * 36 <= stopped_speed_threshold * seconds * 10
                   ELSE 0 <= stopped_speed_threshold
        moving_time == data.moving_time + seconds
    IN IF point.time = None \/ previous.time = None THEN data
       ELSE IF stopped
       THEN [data EXCEPT !.stopped_time = @ + seconds,
                         !.stopped_distance = @ + distance_0]
       ELSE [data EXCEPT !.moving_time = moving_time,
                         !.moving_distance = @ + distance_0,
                         !.speeds_and_distances =
                            IF Truthy(distance_0) /\ Truthy(moving_time)
                            THEN Append(@, [distance |-> distance_0, seconds |-> seconds])
                            ELSE @]

RECURSIVE Moving_data_loop(_, _, _, _)
Moving_data_loop(points, i, data, stopped_speed_threshold) ==
    IF i > Len(points) THEN data
    ELSE Moving_data_loop(points, i + 1,
                          Moving_data_pass(points, i, data, stopped_speed_threshold),
                          stopped_speed_threshold)

\* mod_geo.calculate_max_speed(speeds_and_distances): an estimate no larger
\* than the largest speed of the samples (in mm/s), or None when the
\* estimator gives none.
calculate_max_speed(speeds_and_distances, estimated) ==
    LET speeds == {(1000 * speeds_and_distances[k].distance) \div speeds_and_distances[k].seconds :
                      k \in 1..Len(speeds_and_distances)}
    IN IF estimated THEN CHOOSE v \in speeds : \A w \in speeds : w <= v ELSE None

\* GPXTrackSegment.get_moving_data(stopped_speed_threshold); estimated tells
\* whether the estimator of the maximal speed gives a value.
Segment_get_moving_data(segment, stopped_speed_threshold, estimated) ==
    LET threshold == IF ~Truthy(stopped_speed_threshold)
                     THEN DEFAULT_STOPPED_SPEED_THRESHOLD
                     ELSE stopped_speed_threshold
        data == Moving_data_loop(segment.points, 2, MovingData(0, 0, 0, 0, <<>>), threshold)
    IN [moving_time |-> data.moving_time, stopped_time |-> data.stopped_time,
        moving_distance |-> data.moving_distance, stopped_distance |-> data.stopped_distance,
        max_speed |-> IF data.speeds_and_distances # <<>>
                      THEN calculate_max_speed(data.speeds_and_distances, estimated)
                      ELSE None]

\* The loop of GPXTrack.get_moving_data over the segments from i on.
RECURSIVE Track_moving_data_loop(_, _, _, _, _)
Track_moving_data_loop(segments, i, data, stopped_speed_threshold, estimated) ==
    IF i > Len(segments) THEN data
    ELSE LET of_segment == Segment_get_moving_data(segments[i], stopped_speed_threshold, estimated)
         IN Track_moving_data_loop(segments, i + 1,
              [moving_time |-> data.moving_time + of_segment.moving_time,
               stopped_time |-> data.stopped_time + of_segment.stopped_time,
               moving_distance |-> data.moving_distance + of_segment.moving_distance,
               stopped_distance |-> data.stopped_distance + of_segment.stopped_distance,
               max_speed |-> IF of_segment.max_speed # None /\ of_segment.max_speed > data.max_speed
                             THEN of_segment.max_speed ELSE data.max_speed],
              stopped_speed_threshold, estimated)

\* GPXTrack.get_moving_data(stopped_speed_threshold)
Track_get_moving_data(track, stopped_speed_threshold, estimated) ==
    Track_moving_data_loop(track.segments, 1,
        [moving_time |-> 0, stopped_time |-> 0, moving_distance |-> 0,
         stopped_distance |-> 0, max_speed |-> 0],
        stopped_speed_threshold, estimated)

\* The loop of GPX.get_moving_data over the tracks from t on.
RECURSIVE GPX_moving_data_loop(_, _, _, _, _)
GPX_moving_data_loop(tracks, t, data, stopped_speed_threshold, estimated) ==
    IF t > Len(tracks) THEN data
    ELSE LET of_track == Track_get_moving_data(tracks[t], stopped_speed_threshold, estimated)
         IN GPX_moving_data_loop(tracks, t + 1,
              [moving_time |-> data.moving_time + of_track.moving_time,
               stopped_time |-> data.stopped_time + of_track.stopped_time,
               moving_distance |-> data.moving_distance + of_track.moving_distance,
               stopped_distance |-> data.stopped_distance + of_track.stopped_distance,
               max_speed |-> IF of_track.max_speed > data.max_speed
                             THEN of_track.max_speed ELSE data.max_speed],
              stopped_speed_threshold, estimated)

\* GPX.get_moving_data(stopped_speed_threshold)
GPX_get_moving_data(g, stopped_speed_threshold, estimated) ==
    GPX_moving_data_loop(g.tracks, 1,
        [moving_time |-> 0, stopped_time |-> 0, moving_distance |-> 0,
         stopped_distance |-> 0, max_speed |-> 0],
        stopped_speed_threshold, estimated)

(***************************************************************************)
(* Specification SpecMoving: get_moving_data at the three levels.          *)
(***************************************************************************)
\* <<latitude, elevation, time>> of the points: no time, and times of 0, 1,
\* more than 1, 3 and 9 seconds; 10 m in 9 s is 4 km/h.
MovingAttributes ==
    {<<0, None, None>>, <<0, 0, 0>>, <<1, None, TicksPerSecond>>,
     <<1, 1, TicksPerSecond + 1>>, <<9, 2, 3 * TicksPerSecond>>,
     <<10, None, 9 * TicksPerSecond>>}
MovingThresholds == {None, 1, 4}

InitMoving ==
    /\ gpx \in LocatedDocs(MovingAttributes)
    /\ op = NoOp
    /\ pre = gpx
    /\ ret = Returned(None)
    /\ back = NoBack

\* gpx.get_moving_data(stopped_speed_threshold)
GetMovingData ==
    \E stopped_speed_threshold \in MovingThresholds, estimated \in BOOLEAN :
        /\ ret' = Returned(GPX_get_moving_data(gpx, stopped_speed_threshold, estimated))
        /\ op' = [name |-> "get_moving_data", level |-> "gpx", track_no |-> None,
                  track_segment_no |-> None,
                  stopped_speed_threshold |-> stopped_speed_threshold]
        /\ pre' = gpx
        /\ UNCHANGED <<gpx, back>>

\* gpx.tracks[track_no].get_moving_data(stopped_speed_threshold)
TrackGetMovingData ==
    \E track_no \in 0..(Len(gpx.tracks) - 1) :
      \E stopped_speed_threshold \in MovingThresholds, estimated \in BOOLEAN :
        /\ ret' = Returned(Track_get_moving_data(gpx.tracks[track_no + 1],
                                                 stopped_speed_threshold, estimated))
        /\ op' = [name |-> "get_moving_data", level |-> "track", track_no |-> track_no,
                  track_segment_no |-> None,
                  stopped_speed_threshold |-> stopped_speed_threshold]
        /\ pre' = gpx
        /\ UNCHANGED <<gpx, back>>

\* gpx.tracks[track_no].segments[track_segment_no].get_moving_data(stopped_speed_threshold)
SegmentGetMovingData ==
    \E track_no \in 0..(Len(gpx.tracks) - 1) :
      \E track_segment_no \in 0..(Len(gpx.tracks[track_no + 1].segments) - 1) :
        \E stopped_speed_threshold \in MovingThresholds, estimated \in BOOLEAN :
          /\ ret' = Returned(Segment_get_moving_data(
                        gpx.tracks[track_no + 1].segments[track_segment_no + 1],
                        stopped_speed_threshold, estimated))
          /\ op' = [name |-> "get_moving_data", level |-> "segment", track_no |-> track_no,
                    track_segment_no |-> track_segment_no,
                    stopped_speed_threshold |-> stopped_speed_threshold]
          /\ pre' = gpx
          /\ UNCHANGED <<gpx, back>>

NextMoving == GetMovingData \/ TrackGetMovingData \/ SegmentGetMovingData

SpecMoving == InitMoving /\ [][NextMoving]_vars

(***************************************************************************)
(* Field descriptors and serialization.  A descriptor sequence of the      *)
(* model lists the descriptors of the attributes the entities of the model *)
(* carry, in the order of the source; the output of a serialization is the *)
(* sequence of what it emits: the opening and closing of containers and    *)
(* the fields written.                                                     *)
(***************************************************************************)
\* mod_gpxfield.GPXField(name, tag, attribute=..., mandatory=...)
GPXField(name, tag, attribute, mandatory) ==
    [kind |-> "field", name |-> name, tag |-> tag, attribute |-> attribute,
     mandatory |-> mandatory, dependents |-> <<>>]

\* mod_gpxfield.GPXComplexField(name, tag=...)
GPXComplexField(name, tag) ==
    [kind |-> "complex", name |-> name, tag |-> tag, attribute |-> FALSE,
     mandatory |-> FALSE, dependents |-> <<>>]

\* A dependent of a container: "dep", and "@dep" when required.
Dependent(name) == [name |-> name, required |-> FALSE]
Required(name) == [name |-> name, required |-> TRUE]

\* 'tag:dep1:dep2...' and '/tag'
Container(tag, dependents) ==
    [kind |-> "open", name |-> "", tag |-> tag, attribute |-> FALSE,
     mandatory |-> FALSE, dependents |-> dependents]
ContainerEnd(tag) ==
    [kind |-> "close", name |-> "", tag |-> tag, attribute |-> FALSE,
     mandatory |-> FALSE, dependents |-> <<>>]

\* gpx_10_fields with link_text written under the tag of link.
gpx_10_fields_one_tag ==
    << GPXField("version", "version", TRUE, FALSE),
       GPXField("creator", "creator", TRUE, FALSE),
       GPXField("name", "name", FALSE, FALSE),
       GPXField("description", "desc", FALSE, FALSE),
       GPXField("author_name", "author", FALSE, FALSE),
       GPXField("author_email", "email", FALSE, FALSE),
       GPXField("link", "url", FALSE, FALSE),
       GPXField("link_text", "url", FALSE, FALSE),
       GPXField("time", "time", FALSE, FALSE),
       GPXField("keywords", "keywords", FALSE, FALSE),
       GPXComplexField("waypoints", "wpt"),
       GPXComplexField("tracks", "trk") >>

\* GPX.gpx_10_fields
gpx_10_fields ==
    << GPXField("version", "version", TRUE, FALSE),
       GPXField("creator", "creator", TRUE, FALSE),
       GPXField("name", "name", FALSE, FALSE),
       GPXField("description", "desc", FALSE, FALSE),
       GPXField("author_name", "author", FALSE, FALSE),
       GPXField("author_email", "email", FALSE, FALSE),
       GPXField("link", "url", FALSE, FALSE),
       GPXField("link_text", "urlname", FALSE, FALSE),
       GPXField("time", "time", FALSE, FALSE),
       GPXField("keywords", "keywords", FALSE, FALSE),
       GPXComplexField("waypoints", "wpt"),
       GPXComplexField("tracks", "trk") >>

\* gpx_11_fields with the dependents of the two link containers not required
\* and the fields nested in them listed as dependents too.
gpx_11_fields_links_not_required ==
    << GPXField("version", "version", TRUE, FALSE),
       GPXField("creator", "creator", TRUE, FALSE),
       Container("metadata",
           << Dependent("name"), Dependent("description"), Dependent("author_name"),
              Dependent("author_email"), Dependent("author_link"),
              Dependent("copyright_author"), Dependent("copyright_year"),
              Dependent("copyright_license"), Dependent("link"), Dependent("time"),
              Dependent("keywords") >>),
       GPXField("name", "name", FALSE, FALSE),
       GPXField("description", "desc", FALSE, FALSE),
       Container("author",
           << Dependent("author_name"), Dependent("author_email"),
              Dependent("author_link"), Dependent("author_link_text") >>),
       GPXField("author_name", "name", FALSE, FALSE),
       GPXField("author_email", "email", FALSE, FALSE),
       Container("link", << Dependent("author_link"), Dependent("author_link_text"),
                            Dependent("author_link_type") >>),
       GPXField("author_link", "href", TRUE, FALSE),
       GPXField("author_link_text", "text", FALSE, FALSE),
       GPXField("author_link_type", "type", FALSE, FALSE),
       ContainerEnd("link"),
       ContainerEnd("author"),
       Container("copyright",
           << Dependent("copyright_author"), Dependent("copyright_year"),
              Dependent("copyright_license") >>),
       GPXField("copyright_author", "author", TRUE, FALSE),
       GPXField("copyright_year", "year", FALSE, FALSE),
       GPXField("copyright_license", "license", FALSE, FALSE),
       ContainerEnd("copyright"),
       Container("link", << Dependent("link"), Dependent("link_text"),
                            Dependent("link_type") >>),
       GPXField("link", "href", TRUE, FALSE),
       GPXField("link_text", "text", FALSE, FALSE),
       GPXField("link_type", "type", FALSE, FALSE),
       ContainerEnd("link"),
       GPXField("time", "time", FALSE, FALSE),
       GPXField("keywords", "keywords", FALSE, FALSE),
       ContainerEnd("metadata"),
       GPXComplexField("waypoints", "wpt"),
       GPXComplexField("tracks", "trk") >>

\* GPX.gpx_11_fields
gpx_11_fields ==
    << GPXField("version", "version", TRUE, FALSE),
       GPXField("creator", "creator", TRUE, FALSE),
       Container("metadata",
           << Dependent("name"), Dependent("description"), Dependent("author_name"),
              Dependent("author_email"), Dependent("author_link"),
              Dependent("copyright_author"), Dependent("copyright_year"),
              Dependent("copyright_license"), Dependent("link"), Dependent("time"),
              Dependent("keywords") >>),
       GPXField("name", "name", FALSE, FALSE),
       GPXField("description", "desc", FALSE, FALSE),
       Container("author",
           << Dependent("author_name"), Dependent("author_email"),
              Dependent("author_link") >>),
       GPXField("author_name", "name", FALSE, FALSE),
       GPXField("author_email", "email", FALSE, FALSE),
       Container("link", << Required("author_link") >>),
       GPXField("author_link", "href", TRUE, FALSE),
       GPXField("author_link_text", "text", FALSE, FALSE),
       GPXField("author_link_type", "type", FALSE, FALSE),
       ContainerEnd("link"),
       ContainerEnd("author"),
       Container("copyright",
           << Dependent("copyright_author"), Dependent("copyright_year"),
              Dependent("copyright_license") >>),
       GPXField("copyright_author", "author", TRUE, FALSE),
       GPXField("copyright_year", "year", FALSE, FALSE),
       GPXField("copyright_license", "license", FALSE, FALSE),
       ContainerEnd("copyright"),
       Container("link", << Required("link") >>),
       GPXField("link", "href", TRUE, FALSE),
       GPXField("link_text", "text", FALSE, FALSE),
       GPXField("link_type", "type", FALSE, FALSE),
       ContainerEnd("link"),
       GPXField("time", "time", FALSE, FALSE),
       GPXField("keywords", "keywords", FALSE, FALSE),
       ContainerEnd("metadata"),
       GPXComplexField("waypoints", "wpt"),
       GPXComplexField("tracks", "trk") >>

\* GPX_TRACK_POINT_FIELDS (gpx_10_fields of a track point)
GPX_TRACK_POINT_FIELDS ==
    << GPXField("latitude", "lat", TRUE, TRUE),
       GPXField("longitude", "lon", TRUE, TRUE),
       GPXField("elevation", "ele", FALSE, FALSE),
       GPXField("time", "time", FALSE, FALSE),
       GPXField("name", "name", FALSE, FALSE),
       GPXField("link", "url", FALSE, FALSE),
       GPXField("link_text", "urlname", FALSE, FALSE) >>

\* GPX_11_POINT_FIELDS (gpx_11_fields of a track point)
GPX_11_POINT_FIELDS ==
    << GPXField("latitude", "lat", TRUE, TRUE),
       GPXField("longitude", "lon", TRUE, TRUE),
       GPXField("elevation", "ele", FALSE, FALSE),
       GPXField("time", "time", FALSE, FALSE),
       GPXField("name", "name", FALSE, FALSE),
       Container("link", << Required("link") >>),
       GPXField("link", "href", TRUE, FALSE),
       GPXField("link_text", "text", FALSE, FALSE),
       GPXField("link_type", "type", FALSE, FALSE),
       ContainerEnd("link") >>

\* GPXTrack.gpx_10_fields
Track_gpx_10_fields ==
    << GPXField("name", "name", FALSE, FALSE),
       GPXField("link", "url", FALSE, FALSE),
       GPXField("link_text", "urlname", FALSE, FALSE),
       GPXComplexField("segments", "trkseg") >>

\* GPXTrack.gpx_11_fields
Track_gpx_11_fields ==
    << GPXField("name", "name", FALSE, FALSE),
       Container("link", << Required("link") >>),
       GPXField("link", "href", TRUE, FALSE),
       GPXField("link_text", "text", FALSE, FALSE),
       GPXField("link_type", "type", FALSE, FALSE),
       ContainerEnd("link"),
       GPXComplexField("segments", "trkseg") >>

\* GPXTrackSegment.gpx_10_fields and gpx_11_fields
Segment_gpx_fields == << GPXComplexField("points", "trkpt") >>

\* The attributes that hold a number or a time, and those that hold a list.
NumericAttributes == {"latitude", "longitude", "elevation", "time"}
ListAttributes == {"waypoints", "tracks", "segments", "points"}

\* A time as DATE_FORMAT ('%Y-%m-%dT%H:%M:%SZ') writes it: whole seconds.
Formatted_time(time) == IF time = None THEN None ELSE (time \div TicksPerSecond) * TicksPerSecond

\* The attribute of the instance is not empty.
HasValue(instance, name) ==
    IF name \in ListAttributes THEN instance[name] # <<>>
    ELSE IF name \in NumericAttributes THEN instance[name] # None
    ELSE TruthyStr(instance[name])

\* A container is written when a listed dependent has a value and no
\* required dependent is empty; one without dependents is always written.
Container_emitted(instance, container) ==
    LET dependents == container.dependents
    IN \/ dependents = <<>>
       \/ /\ \E k \in 1..Len(dependents) : HasValue(instance, dependents[k].name)
          /\ \A k \in 1..Len(dependents) :
                dependents[k].required => HasValue(instance, dependents[k].name)

\* What a descriptor emits: the element or attribute, and for a field the
\* text or the number written in it.
Emitted(instance, descriptor) ==
    [kind |-> descriptor.kind, tag |-> descriptor.tag, name |-> descriptor.name,
     attribute |-> descriptor.attribute,
     text |-> IF descriptor.kind = "field" /\ descriptor.name \notin NumericAttributes
              THEN instance[descriptor.name] ELSE NoneStr,
     number |-> IF descriptor.kind = "field" /\ descriptor.name \in NumericAttributes
                THEN IF descriptor.name = "time" THEN Formatted_time(instance.time)
                     ELSE instance[descriptor.name]
                ELSE None]

\* The walk over the descriptors from i on; suppressed counts the open
\* containers that are not written, out is what was emitted so far.
RECURSIVE gpx_fields_to_xml_loop(_, _, _, _, _)
gpx_fields_to_xml_loop(instance, fields, i, suppressed, out) ==
    IF i > Len(fields) THEN out
    ELSE LET descriptor == fields[i]
         IN IF descriptor.kind = "open"
            THEN IF suppressed > 0
                 THEN gpx_fields_to_xml_loop(instance, fields, i + 1, suppressed + 1, out)
                 ELSE IF Container_emitted(instance, descriptor)
                 THEN gpx_fields_to_xml_loop(instance, fields, i + 1, 0,
                                             Append(out, Emitted(instance, descriptor)))
                 ELSE gpx_fields_to_xml_loop(instance, fields, i + 1, 1, out)
            ELSE IF descriptor.kind = "close"
            THEN IF suppressed > 0
                 THEN gpx_fields_to_xml_loop(instance, fields, i + 1, suppressed - 1, out)
                 ELSE gpx_fields_to_xml_loop(instance, fields, i + 1, 0,
                                             Append(out, Emitted(instance, descriptor)))
            ELSE gpx_fields_to_xml_loop(instance, fields, i + 1, suppressed,
                    IF suppressed = 0 /\ (descriptor.mandatory \/ HasValue(instance, descriptor.name))
                    THEN Append(out, Emitted(instance, descriptor)) ELSE out)

\* mod_gpxfield.gpx_fields_to_xml(instance, tag, version) for a document.
gpx_fields_to_xml(instance, version) ==
    gpx_fields_to_xml_loop(instance,
                           IF version = "1.1" THEN gpx_11_fields ELSE gpx_10_fields,
                           1, 0, <<>>)

\* mod_gpxfield.gpx_fields_to_xml(instance, tag, version) for a track point.
point_fields_to_xml(instance, version) ==
    gpx_fields_to_xml_loop(instance,
                           IF version = "1.1" THEN GPX_11_POINT_FIELDS ELSE GPX_TRACK_POINT_FIELDS,
                           1, 0, <<>>)

\* mod_gpxfield.gpx_fields_to_xml(instance, tag, version) for a track: what
\* the track element holds, then its trkseg elements, each the trkpt
\* elements of a segment.
track_fields_to_xml(instance, version) ==
    [out |-> gpx_fields_to_xml_loop(instance,
                IF version = "1.1" THEN Track_gpx_11_fields ELSE Track_gpx_10_fields,
                1, 0, <<>>),
     trkseg |-> [i \in 1..Len(instance.segments) |->
        [out |-> gpx_fields_to_xml_loop(instance.segments[i], Segment_gpx_fields, 1, 0, <<>>),
         trkpt |-> [k \in 1..Len(instance.segments[i].points) |->
                      point_fields_to_xml(instance.segments[i].points[k], version)]]]]

(***************************************************************************)
(* to_xml                                                                  *)
(***************************************************************************)
DefaultCreator == "gpx.py -- https://github.com/tkrajina/gpxpy"

\* version.replace('.', '/')
version_path(version) == IF version = "1.0" THEN "1/0" ELSE "1/1"

\* 'http://www.topografix.com/GPX/{0}'.format(version_path) and
\* 'http://www.topografix.com/GPX/{0}/gpx.xsd'.format(version_path)
Namespace(path) ==
    IF path = "1/0" THEN "http://www.topografix.com/GPX/1/0"
    ELSE "http://www.topografix.com/GPX/1/1"
Schema(path) ==
    IF path = "1/0" THEN "http://www.topografix.com/GPX/1/0/gpx.xsd"
    ELSE "http://www.topografix.com/GPX/1/1/gpx.xsd"

\* The version used when none is asked for and the document has none: "1.0".
Effective_version_10(g, version) ==
    IF ~TruthyStr(version)
    THEN IF TruthyStr(g.version) THEN g.version ELSE "1.0"
    ELSE version

\* "if not version: version = self.version if self.version else '1.1'"
Effective_version(g, version) ==
    IF ~TruthyStr(version)
    THEN IF TruthyStr(g.version) THEN g.version ELSE "1.1"
    ELSE version

\* to_xml that takes the version before it tests it.
GPX_to_xml_version_first(g, version) ==
    LET version_0 == Effective_version(g, version)
        path == version_path(version_0)
        after == [g EXCEPT
            !.version = version_0,
            !.creator = IF ~TruthyStr(@) THEN DefaultCreator ELSE @,
            !.nsmap = [xsi |-> "http://www.w3.org/2001/XMLSchema-instance",
                       defaultns |-> Namespace(path)],
            !.schema_locations = IF @ = <<>> THEN <<Namespace(path), Schema(path)>> ELSE @]
    IN IF version_0 # "1.0" /\ version_0 # "1.1"
       THEN [gpx |-> [g EXCEPT !.version = version_0], ret |-> Raised("GPXException")]
       ELSE [gpx |-> after,
             ret |-> Returned(
                [version |-> after.version, creator |-> after.creator,
                 xmlns |-> after.nsmap.defaultns,
                 schemaLocation |-> after.schema_locations,
                 gpx |-> gpx_fields_to_xml(after, version_0),
                 trk |-> [t \in 1..Len(after.tracks) |->
                            track_fields_to_xml(after.tracks[t], version_0)],
                 trkpt |-> [i \in 1..Len(GPX_walk(after)) |->
                               point_fields_to_xml(GPX_walk(after)[i], version_0)]])]

\* GPX.to_xml(version): the document after the call and what the call gives.
GPX_to_xml(g, version) ==
    LET version_0 == Effective_version(g, version)
        path == version_path(version_0)
        after == [g EXCEPT
            !.version = version_0,
            !.creator = IF ~TruthyStr(@) THEN DefaultCreator ELSE @,
            !.nsmap = [xsi |-> "http://www.w3.org/2001/XMLSchema-instance",
                       defaultns |-> Namespace(path)],
            !.schema_locations = IF @ = <<>> THEN <<Namespace(path), Schema(path)>> ELSE @]
    IN IF version_0 # "1.0" /\ version_0 # "1.1"
       THEN [gpx |-> g, ret |-> Raised("GPXException")]
       ELSE [gpx |-> after,
             ret |-> Returned(
                [version |-> after.version, creator |-> after.creator,
                 xmlns |-> after.nsmap.defaultns,
                 schemaLocation |-> after.schema_locations,
                 gpx |-> gpx_fields_to_xml(after, version_0),
                 trk |-> [t \in 1..Len(after.tracks) |->
                            track_fields_to_xml(after.tracks[t], version_0)],
                 trkpt |-> [i \in 1..Len(GPX_walk(after)) |->
                               point_fields_to_xml(GPX_walk(after)[i], version_0)]])]

(***************************************************************************)
(* Parsing what a serialization wrote.                                     *)
(***************************************************************************)
\* The containers the item at i lies in, outermost first; items is a
\* descriptor sequence or an output, stack the containers open before k.
RECURSIVE Path_loop(_, _, _, _)
Path_loop(items, i, k, stack) ==
    IF k >= i THEN stack
    ELSE Path_loop(items, i, k + 1,
            IF items[k].kind = "open" THEN Append(stack, items[k].tag)
            ELSE IF items[k].kind = "close" THEN SubSeq(stack, 1, Len(stack) - 1)
            ELSE stack)
Path(items, i) == Path_loop(items, i, 1, <<>>)

\* The value read for the field descriptor at i: that of the first attribute
\* or child of its tag found in the element its containers name, None when
\* there is none.
Parsed(out, fields, i) ==
    LET found == {k \in 1..Len(out) :
                    /\ out[k].kind = "field"
                    /\ out[k].tag = fields[i].tag
                    /\ out[k].attribute = fields[i].attribute
                    /\ Path(out, k) = Path(fields, i)}
        first == CHOOSE k \in found : \A j \in found : k <= j
    IN IF fields[i].name \in NumericAttributes
       THEN IF found = {} THEN None ELSE out[first].number
       ELSE IF found = {} THEN NoneStr ELSE out[first].text

\* mod_gpxfield.gpx_fields_from_xml: a new instance (blank) with every
\* attribute a field descriptor declares read from the element.
gpx_fields_from_xml(blank, out, fields) ==
    [a \in DOMAIN blank |->
        IF \E i \in 1..Len(fields) : fields[i].kind = "field" /\ fields[i].name = a
        THEN Parsed(out, fields,
                    CHOOSE i \in 1..Len(fields) : fields[i].kind = "field" /\ fields[i].name = a)
        ELSE blank[a]]

\* The track point read from a trkpt element.
point_from_xml(out, version) ==
    gpx_fields_from_xml(GPXTrackPoint(None, None, None, None, None), out,
                        IF version = "1.1" THEN GPX_11_POINT_FIELDS ELSE GPX_TRACK_POINT_FIELDS)

\* The track read from a trk element.
track_from_xml(element, version) ==
    [gpx_fields_from_xml(GPXTrack(<<>>), element.out,
                         IF version = "1.1" THEN Track_gpx_11_fields ELSE Track_gpx_10_fields)
     EXCEPT !.segments = [i \in 1..Len(element.trkseg) |->
        GPXTrackSegment([k \in 1..Len(element.trkseg[i].trkpt) |->
                            point_from_xml(element.trkseg[i].trkpt[k], version)])]]

\* gpxpy.parse(xml): the document read from what to_xml gave.
parse(xml) ==
    [gpx_fields_from_xml(GPX0, xml.gpx,
                         IF xml.version = "1.1" THEN gpx_11_fields ELSE gpx_10_fields)
     EXCEPT !.tracks = [t \in 1..Len(xml.trk) |-> track_from_xml(xml.trk[t], xml.version)]]

(***************************************************************************)
(* Specification SpecXml: to_xml on documents of one track of one point,   *)
(* with and without values in the metadata and in the links.               *)
(***************************************************************************)
XmlVersions == {NoneStr, "", "1.0", "1.1", "2.0"}
Texts == {NoneStr, "x"}

InitXml ==
    /\ \E version \in {NoneStr, "1.0", "2.0"}, creator \in Texts, name \in Texts,
          author_name \in Texts, author_link \in Texts, author_link_text \in Texts,
          link \in Texts, link_text \in Texts, track_link \in Texts,
          point_link \in Texts, point_link_text \in Texts :
         gpx = [GPX0 EXCEPT
                  !.version = version, !.creator = creator, !.name = name,
                  !.author_name = author_name, !.author_link = author_link,
                  !.author_link_text = author_link_text,
                  !.link = link, !.link_text = link_text,
                  !.tracks = <<[GPXTrack(<<GPXTrackSegment(
                      <<[GPXTrackPoint(1, 0, 0, None, TicksPerSecond + 1) EXCEPT
                            !.link = point_link, !.link_text = point_link_text]>>)>>)
                      EXCEPT !.name = "x", !.link = track_link, !.link_text = "x"]>>]
    /\ op = NoOp
    /\ pre = gpx
    /\ ret = Returned(None)
    /\ back = NoBack

\* gpx.to_xml(version)
ToXml ==
    \E version \in XmlVersions :
        LET result == GPX_to_xml(gpx, version)
        IN /\ gpx' = result.gpx
           /\ ret' = result.ret
           /\ op' = [name |-> "to_xml", version |-> version]
           /\ pre' = gpx
           /\ UNCHANGED back

NextXml == ToXml

SpecXml == InitXml /\ [][NextXml]_vars

(***************************************************************************)
(* add_missing_data and add_missing_elevations.  A ratio is kept as the    *)
(* fraction num / den; an interpolated value is rounded to the nearest     *)
(* whole number of the model's unit.                                       *)
(***************************************************************************)
\* a / b rounded to the nearest whole number, for b > 0.
RoundDiv(a, b) == (2 * a + b) \div (2 * b)

\* The ratios taken from the distance between neighbours, not summed from
\* the start.
Interval_distances_ratios_not_cumulative(points, interval, start, end) ==
    LET step == [k \in 1..Len(interval) |->
                    distance_3d(points[interval[k]],
                                points[IF k = 1 THEN start ELSE interval[k - 1]])]
        from_start_to_end ==
            SumSeq(step) + distance_3d(points[interval[Len(interval)]], points[end])
    IN [k \in 1..Len(interval) |->
            IF Truthy(from_start_to_end)
            THEN [num |-> step[k], den |-> from_start_to_end]
            ELSE [num |-> 0, den |-> 1]]

\* GPXTrackSegment._get_interval_distances_ratios(interval, start, end); the
\* interval, start and end are given by their places in points.
Interval_distances_ratios(points, interval, start, end) ==
    LET step == [k \in 1..Len(interval) |->
                    distance_3d(points[interval[k]],
                                points[IF k = 1 THEN start ELSE interval[k - 1]])]
        distances == [k \in 1..Len(interval) |-> SumSeq(SubSeq(step, 1, k))]
        from_start_to_end ==
            distances[Len(interval)] + distance_3d(points[interval[Len(interval)]], points[end])
    IN [k \in 1..Len(interval) |->
            IF Truthy(from_start_to_end)
            THEN [num |-> distances[k], den |-> from_start_to_end]
            ELSE [num |-> 0, den |-> 1]]

\* _add of GPX.add_missing_elevations
Add_missing_elevations(points, interval, start, end, distances_ratios) ==
    IF points[start].elevation = None \/ points[end].elevation = None THEN points
    ELSE [i \in 1..Len(points) |->
            IF \E k \in 1..Len(interval) : interval[k] = i
            THEN LET k == CHOOSE k \in 1..Len(interval) : interval[k] = i
                 IN [points[i] EXCEPT !.elevation =
                        points[start].elevation
                        + RoundDiv(distances_ratios[k].num
                                     * (points[end].elevation - points[start].elevation),
                                   distances_ratios[k].den)]
            ELSE points[i]]

\* _add of GPX.add_missing_times; the seconds between start and end are
\* whole, the new time is rounded to the tick.
Add_missing_times(points, interval, start, end, distances_ratios) ==
    IF points[start].time = None \/ points[end].time = None THEN points
    ELSE LET seconds_between == total_seconds(points[end].time - points[start].time)
         IN [i \in 1..Len(points) |->
                IF \E k \in 1..Len(interval) : interval[k] = i
                THEN LET k == CHOOSE k \in 1..Len(interval) : interval[k] = i
                     IN [points[i] EXCEPT !.time =
                            points[start].time
                            + RoundDiv(distances_ratios[k].num * seconds_between * TicksPerSecond,
                                       distances_ratios[k].den)]
                ELSE points[i]]

\* GPXTrackPoint.time_difference(track_point), in seconds
time_difference(p, q) ==
    IF p.time = None \/ q.time = None THEN None
    ELSE IF p.time = q.time THEN 0
    ELSE total_seconds(Abs(p.time - q.time))

\* _add of GPX.add_missing_speeds: the points of the interval get their
\* speed one after the other, up to the first whose neighbouring times
\* cannot be added (TypeError) or add up to nothing (ZeroDivisionError).
\* The speed is rounded to the nearest whole number.
Add_missing_speeds(points, interval, start, end) ==
    IF points[start].time = None \/ points[end].time = None
    THEN [points |-> points, raised |-> NoneStr]
    ELSE LET n == Len(interval)
             place == [k \in 0..(n + 1) |->
                          IF k = 0 THEN start ELSE IF k = n + 1 THEN end ELSE interval[k]]
             times_dists == [k \in 1..(n + 1) |->
                                [time |-> time_difference(points[place[k - 1]], points[place[k]]),
                                 dist |-> distance_3d(points[place[k - 1]], points[place[k]])]]
             failure(k) == IF times_dists[k].time = None \/ times_dists[k + 1].time = None
                           THEN "TypeError"
                           ELSE IF times_dists[k].time + times_dists[k + 1].time = 0
                           THEN "ZeroDivisionError"
                           ELSE NoneStr
             failing == {k \in 1..n : failure(k) # NoneStr}
             stop == IF failing = {} THEN n + 1
                     ELSE CHOOSE k \in failing : \A j \in failing : k <= j
         IN [points |->
                [i \in 1..Len(points) |->
                    IF \E k \in 1..(stop - 1) : interval[k] = i
                    THEN LET k == CHOOSE k \in 1..(stop - 1) : interval[k] = i
                         IN [points[i] EXCEPT !.speed =
                                RoundDiv(times_dists[k].dist + times_dists[k + 1].dist,
                                         times_dists[k].time + times_dists[k + 1].time)]
                    ELSE points[i]],
             raised |-> IF failing = {} THEN NoneStr ELSE failure(stop)]

\* add_missing_function(interval, start, end, distances_ratios) for the data
\* named by attribute
Add_missing(points, interval, start, end, attribute) ==
    CASE attribute = "elevation" ->
            [points |-> Add_missing_elevations(points, interval, start, end,
                            Interval_distances_ratios(points, interval, start, end)),
             raised |-> NoneStr]
      [] attribute = "time" ->
            [points |-> Add_missing_times(points, interval, start, end,
                            Interval_distances_ratios(points, interval, start, end)),
             raised |-> NoneStr]
      [] attribute = "speed" -> Add_missing_speeds(points, interval, start, end)

\* The loop of GPXTrackSegment.add_missing_data from the point at i on, for
\* the data named by attribute; interval holds the places of the points
\* without data met since start, the place of the point before them.  The
\* loop ends at an exception of the function that adds the data.
RECURSIVE Add_missing_data_loop(_, _, _, _, _)
Add_missing_data_loop(points, i, interval, start, attribute) ==
    IF i > Len(points) THEN [points |-> points, raised |-> NoneStr]
    ELSE IF points[i][attribute] = None /\ i > 1
    THEN Add_missing_data_loop(points, i + 1, Append(interval, i),
                               IF start = None THEN i - 1 ELSE start, attribute)
    ELSE IF interval # <<>>
    THEN LET added == Add_missing(points, interval, start, i, attribute)
         IN IF added.raised # NoneStr THEN added
            ELSE Add_missing_data_loop(added.points, i + 1, <<>>, None, attribute)
    ELSE Add_missing_data_loop(points, i + 1, interval, start, attribute)

\* GPXTrackSegment.add_missing_data(get_data_function, add_missing_function)
Segment_add_missing_data(segment, attribute) ==
    LET done == Add_missing_data_loop(segment.points, 1, <<>>, None, attribute)
    IN [segment |-> [segment EXCEPT !.points = done.points], raised |-> done.raised]

\* The place of the first of the results that raised, or one past the last.
First_raised(done) ==
    IF \A i \in 1..Len(done) : done[i].raised = NoneStr THEN Len(done) + 1
    ELSE CHOOSE i \in 1..Len(done) :
            done[i].raised # NoneStr /\ \A j \in 1..(i - 1) : done[j].raised = NoneStr

\* The loop of GPXTrack.add_missing_data, done being what add_missing_data
\* makes of each segment: the segments are filled one after the other up to
\* the first whose filling raises, which is left as the exception found it;
\* the segments after it are not reached.
Track_add_missing_data_loop(track, done) ==
    [track |-> [track EXCEPT !.segments =
                   [i \in 1..Len(track.segments) |->
                       IF i <= First_raised(done) THEN done[i].segment
                       ELSE track.segments[i]]],
     raised |-> IF First_raised(done) > Len(done) THEN NoneStr
                ELSE done[First_raised(done)].raised]

\* GPXTrack.add_missing_data
Track_add_missing_data(track, attribute) ==
    Track_add_missing_data_loop(track,
        [i \in 1..Len(track.segments) |->
            Segment_add_missing_data(track.segments[i], attribute)])

\* The loop of GPX.add_missing_data over the tracks, in the same way.
GPX_add_missing_data_loop(g, done) ==
    [gpx |-> [g EXCEPT !.tracks =
                 [t \in 1..Len(g.tracks) |->
                     IF t <= First_raised(done) THEN done[t].track ELSE g.tracks[t]]],
     ret |-> IF First_raised(done) > Len(done) THEN Returned(None)
             ELSE Raised(done[First_raised(done)].raised)]

\* GPX.add_missing_data
GPX_add_missing_data(g, attribute) ==
    GPX_add_missing_data_loop(g,
        [t \in 1..Len(g.tracks) |-> Track_add_missing_data(g.tracks[t], attribute)])

\* GPX.add_missing_elevations()
GPX_add_missing_elevations(g) == GPX_add_missing_data(g, "elevation")

\* GPX.add_missing_times()
GPX_add_missing_times(g) == GPX_add_missing_data(g, "time")

\* GPX.add_missing_speeds()
GPX_add_missing_speeds(g) == GPX_add_missing_data(g, "speed")

(***************************************************************************)
(* Specification SpecMissing: add_missing_elevations.                      *)
(***************************************************************************)
\* <<latitude, elevation, time>> of the points.
MissingAttributes ==
    {<<0, 100, None>>, <<1, None, None>>, <<2, 200, None>>, <<0, None, None>>, <<5, 0, None>>}

\* The documents of up to MaxPoints points, and those of one segment with
\* one point more.
InitMissing ==
    /\ \/ gpx \in LocatedDocs(MissingAttributes)
       \/ \E points_1 \in PointSeqs(1, MaxPoints + 1, MissingAttributes) :
            gpx = [GPX0 EXCEPT !.tracks = Layout(1, points_1, <<>>)]
    /\ op = NoOp
    /\ pre = gpx
    /\ ret = Returned(None)
    /\ back = NoBack

\* gpx.add_missing_elevations()
AddMissingElevations ==
    /\ gpx' = GPX_add_missing_elevations(gpx).gpx
    /\ ret' = GPX_add_missing_elevations(gpx).ret
    /\ op' = [name |-> "add_missing_elevations"]
    /\ pre' = gpx
    /\ UNCHANGED back

NextMissing == AddMissingElevations

SpecMissing == InitMissing /\ [][NextMissing]_vars

(***************************************************************************)
(* Specification SpecGaps: the three fillers of missing data on points     *)
(* with and without elevation, time and speed.                             *)
(***************************************************************************)
\* latitude, elevation, time, longitude and speed of a point
GapAttributes ==
    {<<0, 1, 0, 0, 2>>, <<1, None, None, 0, None>>,
     <<2, None, 2 * TicksPerSecond, 0, None>>, <<4, 3, 5 * TicksPerSecond, 0, 4>>}

InitGaps ==
    /\ \/ gpx \in LocatedDocs(GapAttributes)
       \/ \E points_1 \in PointSeqs(1, MaxPoints + 1, GapAttributes) :
            gpx = [GPX0 EXCEPT !.tracks = Layout(1, points_1, <<>>)]
    /\ op = NoOp
    /\ pre = gpx
    /\ ret = Returned(None)
    /\ back = NoBack

\* gpx.add_missing_times()
AddMissingTimes ==
    /\ gpx' = GPX_add_missing_times(gpx).gpx
    /\ ret' = GPX_add_missing_times(gpx).ret
    /\ op' = [name |-> "add_missing_times"]
    /\ pre' = gpx
    /\ UNCHANGED back

\* gpx.add_missing_speeds()
AddMissingSpeeds ==
    /\ gpx' = GPX_add_missing_speeds(gpx).gpx
    /\ ret' = GPX_add_missing_speeds(gpx).ret
    /\ op' = [name |-> "add_missing_speeds"]
    /\ pre' = gpx
    /\ UNCHANGED back

NextGaps == AddMissingElevations \/ AddMissingTimes \/ AddMissingSpeeds

SpecGaps == InitGaps /\ [][NextGaps]_vars

(***************************************************************************)
(* has_times, has_elevations and fill_time_data_with_regular_intervals.    *)
(* A Python truth value that may be None is "True", "False" or NoneStr.    *)
(***************************************************************************)
Bool(b) == IF b THEN "True" ELSE "False"

\* result and value, for result "True" or "False" or None
And(result, value) == IF result = "True" THEN value ELSE result

\* The number of points of the sequence whose attribute is truthy: a time
\* is truthy when it is there, an elevation when it is there and not 0.
Found(points, attribute) ==
    Cardinality({i \in 1..Len(points) :
        IF attribute = "time" THEN points[i].time # None ELSE Truthy(points[i].elevation)})

\* GPXTrackSegment.has_times() (attribute "time") and has_elevations()
\* (attribute "elevation")
Segment_has(segment, attribute) ==
    IF Len(segment.points) = 0 THEN "True"
    ELSE Bool(/\ Len(segment.points) > 2
              /\ 4 * Found(segment.points, attribute) > 3 * Len(segment.points))

\* The loop of GPXTrack.has_times and has_elevations from the segment at i on
RECURSIVE Track_has_loop(_, _, _, _)
Track_has_loop(segments, i, result, attribute) ==
    IF i > Len(segments) THEN result
    ELSE Track_has_loop(segments, i + 1, And(result, Segment_has(segments[i], attribute)), attribute)

\* GPXTrack.has_times() and has_elevations()
Track_has(track, attribute) ==
    IF Len(track.segments) = 0 THEN NoneStr
    ELSE Track_has_loop(track.segments, 1, "True", attribute)

\* The loop of GPX.has_times and has_elevations from the track at t on
RECURSIVE GPX_has_loop(_, _, _, _)
GPX_has_loop(tracks, t, result, attribute) ==
    IF t > Len(tracks) THEN result
    ELSE GPX_has_loop(tracks, t + 1, And(result, Track_has(tracks[t], attribute)), attribute)

\* GPX.has_times() and has_elevations()
GPX_has(g, attribute) ==
    IF Len(g.tracks) = 0 THEN NoneStr
    ELSE GPX_has_loop(g.tracks, 1, "True", attribute)

\* GPX.get_points_no()
GPX_get_points_no(g) == Len(GPX_walk(g))

\* timedelta / int for a divisor that is not 0: to the nearest tick, a half
\* to the even one.
DivideAndRound(a, b) ==
    LET n == IF b > 0 THEN a ELSE -a
        d == Abs(b)
        q == n \div d
        r == 2 * (n % d)
    IN IF r > d \/ (r = d /\ q % 2 = 1) THEN q + 1 ELSE q

\* The loop of a fill that counts the points of each segment from 0.
Fill_time_data_per_segment(g, start_time, time_delta) ==
    [g EXCEPT
        !.time = start_time,
        !.tracks = [t \in 1..Len(g.tracks) |->
            [g.tracks[t] EXCEPT !.segments = [s \in 1..Len(g.tracks[t].segments) |->
                [g.tracks[t].segments[s] EXCEPT !.points =
                    [p \in 1..Len(g.tracks[t].segments[s].points) |->
                        [g.tracks[t].segments[s].points[p] EXCEPT
                            !.time = start_time + (p - 1) * time_delta]]]]]]]

\* The walk of fill_time_data_with_regular_intervals: the i-th point of the
\* document gets start_time + i * time_delta, the document start_time.
Fill_time_data(g, start_time, time_delta) ==
    [g EXCEPT
        !.time = start_time,
        !.tracks = [t \in 1..Len(g.tracks) |->
            [g.tracks[t] EXCEPT !.segments = [s \in 1..Len(g.tracks[t].segments) |->
                [g.tracks[t].segments[s] EXCEPT !.points =
                    [p \in 1..Len(g.tracks[t].segments[s].points) |->
                        LET i == Len(GPX_walk([g EXCEPT !.tracks = SubSeq(g.tracks, 1, t - 1)]))
                                 + Len(Track_walk([g.tracks[t] EXCEPT
                                        !.segments = SubSeq(g.tracks[t].segments, 1, s - 1)]))
                                 + p - 1
                        IN [g.tracks[t].segments[s].points[p] EXCEPT
                                !.time = start_time + i * time_delta]]]]]]]

\* GPX.fill_time_data_with_regular_intervals(start_time=None,
\* time_delta=None, end_time=None, force=True): the document afterwards and
\* the exception raised, if any.
GPX_fill_time_data_with_regular_intervals(g, start_time, time_delta, end_time, force) ==
    IF /\ ~(start_time # None /\ end_time # None)
       /\ ~(start_time # None /\ Truthy(time_delta))
       /\ ~(Truthy(time_delta) /\ end_time # None)
    THEN [gpx |-> g, ret |-> Raised("GPXException")]
    ELSE IF GPX_has(g, "time") = "True" /\ ~force
    THEN [gpx |-> g, ret |-> Raised("GPXException")]
    ELSE LET point_no == GPX_get_points_no(g)
         IN IF start_time # None /\ end_time # None
            THEN IF start_time > end_time THEN [gpx |-> g, ret |-> Raised("GPXException")]
                 ELSE IF point_no = 1 THEN [gpx |-> g, ret |-> Raised("ZeroDivisionError")]
                 ELSE [gpx |-> Fill_time_data(g, start_time,
                                   DivideAndRound(end_time - start_time, point_no - 1)),
                       ret |-> Returned(None)]
            ELSE IF start_time = None
            THEN [gpx |-> Fill_time_data(g, end_time - (point_no - 1) * time_delta, time_delta),
                  ret |-> Returned(None)]
            ELSE [gpx |-> Fill_time_data(g, start_time, time_delta), ret |-> Returned(None)]

(***************************************************************************)
(* Specification SpecFill: fill_time_data_with_regular_intervals.          *)
(***************************************************************************)
\* The points are untimed or have the time 1 or 3.
InitFill ==
    /\ gpx \in LocatedDocs({<<0, None, None>>, <<0, None, 1>>, <<0, None, 3>>})
    /\ op = NoOp
    /\ pre = gpx
    /\ ret = Returned(None)
    /\ back = NoBack

\* gpx.fill_time_data_with_regular_intervals(start_time, time_delta, end_time, force)
FillTimeData ==
    \E start_time \in {None, 0, 5}, time_delta \in {None, 0, 1},
       end_time \in {None, 4}, force \in BOOLEAN :
        LET result == GPX_fill_time_data_with_regular_intervals(
                          gpx, start_time, time_delta, end_time, force)
        IN /\ gpx' = result.gpx
           /\ ret' = result.ret
           /\ op' = [name |-> "fill_time_data_with_regular_intervals",
                     start_time |-> start_time, time_delta |-> time_delta,
                     end_time |-> end_time, force |-> force]
           /\ pre' = gpx
           /\ UNCHANGED back

NextFill == FillTimeData

SpecFill == InitFill /\ [][NextFill]_vars

(***************************************************************************)
(* get_bounds, get_time_bounds and get_nearest_location.                   *)
(***************************************************************************)
GPXBounds(min_latitude, max_latitude, min_longitude, max_longitude) ==
    [min_latitude |-> min_latitude, max_latitude |-> max_latitude,
     min_longitude |-> min_longitude, max_longitude |-> max_longitude]

TimeBounds(start_time, end_time) == [start_time |-> start_time, end_time |-> end_time]

\* mod_utils.is_numeric of an optional number
is_numeric(s) == s # None

\* One comparison of get_bounds: the bound kept in current after it has met
\* value, sign 1 for a minimum and -1 for a maximum.  A segment compares
\* when current is not None; a track when current is numeric and value is
\* truthy; a document when current is numeric, and there a value None is
\* below every number for Python 2 (Python 3 raises, see Bounds_loop).
Bound(level, python, current, value, sign) ==
    IF level = "segment"
    THEN IF current = None \/ sign * value < sign * current THEN value ELSE current
    ELSE IF level = "track"
    THEN IF ~is_numeric(current) \/ (Truthy(value) /\ sign * value < sign * current)
         THEN value ELSE current
    ELSE IF ~is_numeric(current) THEN value
    ELSE IF value = None THEN (IF sign = 1 THEN value ELSE current)
    ELSE IF sign * value < sign * current THEN value ELSE current

\* The loop of get_bounds over the bounds of the parts (of a segment: its
\* points) from the part at i on.
RECURSIVE Bounds_loop(_, _, _, _, _)
Bounds_loop(level, python, parts, i, bounds) ==
    IF i > Len(parts) THEN Returned(bounds)
    ELSE IF /\ level = "gpx" /\ python = 3
            /\ is_numeric(bounds.min_latitude) /\ parts[i].min_latitude = None
    THEN Raised("TypeError")
    ELSE Bounds_loop(level, python, parts, i + 1,
            GPXBounds(Bound(level, python, bounds.min_latitude, parts[i].min_latitude, 1),
                      Bound(level, python, bounds.max_latitude, parts[i].max_latitude, -1),
                      Bound(level, python, bounds.min_longitude, parts[i].min_longitude, 1),
                      Bound(level, python, bounds.max_longitude, parts[i].max_longitude, -1)))

\* GPXTrackSegment.get_bounds()
Segment_get_bounds(segment) ==
    Bounds_loop("segment", 3,
        [i \in 1..Len(segment.points) |->
            GPXBounds(segment.points[i].latitude, segment.points[i].latitude,
                      segment.points[i].longitude, segment.points[i].longitude)],
        1, GPXBounds(None, None, None, None))

\* GPXTrack.get_bounds()
Track_get_bounds(track) ==
    Bounds_loop("track", 3,
        [i \in 1..Len(track.segments) |-> Segment_get_bounds(track.segments[i]).value],
        1, GPXBounds(None, None, None, None))

\* GPX.get_bounds() as Python 2 or 3 runs it
GPX_get_bounds(g, python) ==
    Bounds_loop("gpx", python,
        [t \in 1..Len(g.tracks) |-> Track_get_bounds(g.tracks[t]).value],
        1, GPXBounds(None, None, None, None))

\* The loop of get_time_bounds over the time bounds of the parts (of a
\* segment: the time of each point, twice) from the part at i on:
\* start_time is set while it is None, end_time by every part that has one.
RECURSIVE Time_bounds_loop(_, _, _, _)
Time_bounds_loop(parts, i, start_time, end_time) ==
    IF i > Len(parts) THEN TimeBounds(start_time, end_time)
    ELSE Time_bounds_loop(parts, i + 1,
            IF start_time = None THEN parts[i].start_time ELSE start_time,
            IF parts[i].end_time # None THEN parts[i].end_time ELSE end_time)

\* get_time_bounds with the earliest and the latest time kept.
Segment_get_time_bounds_min_max(segment) ==
    LET times == {segment.points[i].time : i \in 1..Len(segment.points)} \ {None}
    IN IF times = {} THEN TimeBounds(None, None)
       ELSE TimeBounds(CHOOSE x \in times : \A y \in times : x <= y,
                       CHOOSE x \in times : \A y \in times : x >= y)

\* GPXTrackSegment.get_time_bounds()
Segment_get_time_bounds(segment) ==
    Time_bounds_loop(
        [i \in 1..Len(segment.points) |->
            TimeBounds(segment.points[i].time, segment.points[i].time)],
        1, None, None)

\* GPXTrack.get_time_bounds()
Track_get_time_bounds(track) ==
    Time_bounds_loop(
        [i \in 1..Len(track.segments) |-> Segment_get_time_bounds(track.segments[i])],
        1, None, None)

\* GPX.get_time_bounds()
GPX_get_time_bounds(g) ==
    Time_bounds_loop(
        [t \in 1..Len(g.tracks) |-> Track_get_time_bounds(g.tracks[t])], 1, None, None)

\* The loop of GPXTrackSegment.get_nearest_location from the point at i on;
\* result is the place of the point held, None before the first.
RECURSIVE Nearest_location_loop(_, _, _, _, _, _)
Nearest_location_loop(points, location, i, result, current_distance, result_track_point_no) ==
    IF i > Len(points)
    THEN [location |-> points[result].id, track_point_no |-> result_track_point_no]
    ELSE IF result = None
    THEN Nearest_location_loop(points, location, i + 1, i, current_distance,
                               result_track_point_no)
    ELSE LET d == distance_2d(points[i], location)
         IN IF ~Truthy(current_distance) \/ d < current_distance
            THEN Nearest_location_loop(points, location, i + 1, i, d, i - 1)
            ELSE Nearest_location_loop(points, location, i + 1, result, current_distance,
                                       result_track_point_no)

\* GPXTrackSegment.get_nearest_location(location): the identity of the point
\* returned and its number.
Segment_get_nearest_location(segment, location) ==
    IF Len(segment.points) = 0 THEN [location |-> None, track_point_no |-> None]
    ELSE Nearest_location_loop(segment.points, location, 1, None, None, None)

\* The points of GPX.get_points_data in the order of its three loops, each
\* with its numbers in the document.
Numbered_points(g) ==
    Flatten([t \in 1..Len(g.tracks) |->
        Flatten([i \in 1..Len(g.tracks[t].segments) |->
            [p \in 1..Len(g.tracks[t].segments[i].points) |->
                [point |-> g.tracks[t].segments[i].points[p],
                 track_no |-> t - 1, segment_no |-> i - 1, point_no |-> p - 1]]])])

\* The loops of GPX.get_points_data from the point at i on.
RECURSIVE Points_data_loop(_, _, _, _)
Points_data_loop(numbered, i, distance_from_start, points) ==
    IF i > Len(numbered) THEN points
    ELSE LET now == IF i > 1 /\ numbered[i].point_no > 0
                    THEN distance_from_start
                         + distance_3d(numbered[i].point, numbered[i - 1].point)
                    ELSE distance_from_start
         IN Points_data_loop(numbered, i + 1, now,
                Append(points, [point |-> numbered[i].point, distance_from_start |-> now,
                                track_no |-> numbered[i].track_no,
                                segment_no |-> numbered[i].segment_no,
                                point_no |-> numbered[i].point_no]))

\* GPX.get_points_data()
GPX_get_points_data(g) == Points_data_loop(Numbered_points(g), 1, 0, <<>>)

\* The candidate of get_nearest_locations when there is none.
NoCandidate ==
    [min_distance |-> None, distance_from_start |-> None,
     track_no |-> None, segment_no |-> None, point_no |-> None]

\* The loop of get_nearest_locations that keeps, among the points as near
\* as the candidate, the last one.
RECURSIVE Nearest_locations_loop_last_on_ties(_, _, _, _, _, _, _)
Nearest_locations_loop_last_on_ties(points, location, length, threshold_distance, i, candidate, result) ==
    LET entry == [distance_from_start |-> candidate.distance_from_start,
                  track_no |-> candidate.track_no, segment_no |-> candidate.segment_no,
                  point_no |-> candidate.point_no]
    IN IF i > Len(points)
       THEN IF candidate.distance_from_start # None THEN Append(result, entry) ELSE result
       ELSE LET d == distance_3d(location, points[i].point)
            IN IF d * threshold_distance.den < length * threshold_distance.num
               THEN Nearest_locations_loop_last_on_ties(points, location, length, threshold_distance, i + 1,
                        IF candidate.min_distance = None \/ d <= candidate.min_distance
                        THEN [min_distance |-> d,
                              distance_from_start |-> points[i].distance_from_start,
                              track_no |-> points[i].track_no,
                              segment_no |-> points[i].segment_no,
                              point_no |-> points[i].point_no]
                        ELSE candidate,
                        result)
               ELSE Nearest_locations_loop_last_on_ties(points, location, length, threshold_distance, i + 1,
                        NoCandidate,
                        IF candidate.distance_from_start # None
                        THEN Append(result, entry) ELSE result)

\* The loop of GPX.get_nearest_locations from the point at i on; length is
\* the distance from the start of the last point, threshold_distance the
\* fraction num / den, so that length * threshold_distance is the
\* threshold.
RECURSIVE Nearest_locations_loop(_, _, _, _, _, _, _)
Nearest_locations_loop(points, location, length, threshold_distance, i, candidate, result) ==
    LET entry == [distance_from_start |-> candidate.distance_from_start,
                  track_no |-> candidate.track_no, segment_no |-> candidate.segment_no,
                  point_no |-> candidate.point_no]
    IN IF i > Len(points)
       THEN IF candidate.distance_from_start # None THEN Append(result, entry) ELSE result
       ELSE LET d == distance_3d(location, points[i].point)
            IN IF d * threshold_distance.den < length * threshold_distance.num
               THEN Nearest_locations_loop(points, location, length, threshold_distance, i + 1,
                        IF candidate.min_distance = None \/ d < candidate.min_distance
                        THEN [min_distance |-> d,
                              distance_from_start |-> points[i].distance_from_start,
                              track_no |-> points[i].track_no,
                              segment_no |-> points[i].segment_no,
                              point_no |-> points[i].point_no]
                        ELSE candidate,
                        result)
               ELSE Nearest_locations_loop(points, location, length, threshold_distance, i + 1,
                        NoCandidate,
                        IF candidate.distance_from_start # None
                        THEN Append(result, entry) ELSE result)

\* GPX.get_nearest_locations(location, threshold_distance); a location is
\* always true, a threshold_distance of 0 fails the assertion.
GPX_get_nearest_locations(g, location, threshold_distance) ==
    IF ~Truthy(threshold_distance.num) THEN Raised("AssertionError")
    ELSE LET points == GPX_get_points_data(g)
         IN IF points = <<>> THEN Returned(<<>>)
            ELSE Returned(Nearest_locations_loop(points, location,
                              points[Len(points)].distance_from_start,
                              threshold_distance, 1, NoCandidate, <<>>))

\* GPXTrackSegment.get_duration(): whole seconds, or None
Segment_get_duration(segment) ==
    LET points == segment.points
        first == IF points[1].time = None THEN points[2] ELSE points[1]
        last == IF points[Len(points)].time = None
                THEN points[Len(points) - 1] ELSE points[Len(points)]
    IN IF Len(points) < 2 THEN 0
       ELSE IF last.time = None \/ first.time = None THEN None
       ELSE IF last.time < first.time THEN None
       ELSE total_seconds(last.time - first.time)

(***************************************************************************)
(* Specification SpecQuery: the calls that read a document.                *)
(***************************************************************************)
\* The points are <<latitude, elevation, time, longitude>>; the documents
\* have up to MaxPoints points in two segments, or one segment of
\* MaxPoints + 2 points.
InitQuery ==
    /\ \/ gpx \in LocatedDocs({<<0, 0, None, 0>>, <<2, 1, 3, -1>>,
                               <<-1, None, 1, 2>>, <<1, 2, 2, 1>>})
       \/ \E points_1 \in PointSeqs(1, MaxPoints + 2, {<<0, None, None, 0>>, <<1, 1, 1, 1>>}) :
            gpx = [GPX0 EXCEPT !.tracks = Layout(1, points_1, <<>>)]
    /\ op = NoOp
    /\ pre = gpx
    /\ ret = Returned(None)
    /\ back = NoBack

\* gpx.get_bounds(), gpx.tracks[track_no].get_bounds() and
\* gpx.tracks[track_no].segments[track_segment_no].get_bounds()
GetBounds ==
    \/ \E python \in {2, 3} :
        /\ ret' = GPX_get_bounds(gpx, python)
        /\ op' = [name |-> "get_bounds", level |-> "gpx", python |-> python,
                  track_no |-> None, track_segment_no |-> None]
        /\ pre' = gpx
        /\ UNCHANGED <<gpx, back>>
    \/ \E track_no \in 0..(Len(gpx.tracks) - 1) :
        /\ ret' = Track_get_bounds(gpx.tracks[track_no + 1])
        /\ op' = [name |-> "get_bounds", level |-> "track",
                  track_no |-> track_no, track_segment_no |-> None]
        /\ pre' = gpx
        /\ UNCHANGED <<gpx, back>>
    \/ \E track_no \in 0..(Len(gpx.tracks) - 1) :
        \E track_segment_no \in 0..(Len(gpx.tracks[track_no + 1].segments) - 1) :
          /\ ret' = Segment_get_bounds(gpx.tracks[track_no + 1].segments[track_segment_no + 1])
          /\ op' = [name |-> "get_bounds", level |-> "segment",
                    track_no |-> track_no, track_segment_no |-> track_segment_no]
          /\ pre' = gpx
          /\ UNCHANGED <<gpx, back>>

\* get_time_bounds() of the document, of a track and of a segment
GetTimeBounds ==
    \/ /\ ret' = Returned(GPX_get_time_bounds(gpx))
       /\ op' = [name |-> "get_time_bounds", level |-> "gpx",
                 track_no |-> None, track_segment_no |-> None]
       /\ pre' = gpx
       /\ UNCHANGED <<gpx, back>>
    \/ \E track_no \in 0..(Len(gpx.tracks) - 1) :
        /\ ret' = Returned(Track_get_time_bounds(gpx.tracks[track_no + 1]))
        /\ op' = [name |-> "get_time_bounds", level |-> "track",
                  track_no |-> track_no, track_segment_no |-> None]
        /\ pre' = gpx
        /\ UNCHANGED <<gpx, back>>
    \/ \E track_no \in 0..(Len(gpx.tracks) - 1) :
        \E track_segment_no \in 0..(Len(gpx.tracks[track_no + 1].segments) - 1) :
          /\ ret' = Returned(Segment_get_time_bounds(
                        gpx.tracks[track_no + 1].segments[track_segment_no + 1]))
          /\ op' = [name |-> "get_time_bounds", level |-> "segment",
                    track_no |-> track_no, track_segment_no |-> track_segment_no]
          /\ pre' = gpx
          /\ UNCHANGED <<gpx, back>>

\* segment.has_times() and segment.has_elevations()
SegmentHas ==
    \E track_no \in 0..(Len(gpx.tracks) - 1) :
      \E track_segment_no \in 0..(Len(gpx.tracks[track_no + 1].segments) - 1) :
        \E attribute \in {"time", "elevation"} :
          /\ ret' = Returned(Segment_has(
                        gpx.tracks[track_no + 1].segments[track_segment_no + 1], attribute))
          /\ op' = [name |-> "has", level |-> "segment", attribute |-> attribute,
                    track_no |-> track_no, track_segment_no |-> track_segment_no]
          /\ pre' = gpx
          /\ UNCHANGED <<gpx, back>>

\* segment.get_nearest_location(location)
SegmentGetNearestLocation ==
    \E track_no \in 0..(Len(gpx.tracks) - 1) :
      \E track_segment_no \in 0..(Len(gpx.tracks[track_no + 1].segments) - 1) :
        \E latitude \in {0, 2}, longitude \in {0, 1} :
          /\ ret' = Returned(Segment_get_nearest_location(
                        gpx.tracks[track_no + 1].segments[track_segment_no + 1],
                        [latitude |-> latitude, longitude |-> longitude]))
          /\ op' = [name |-> "get_nearest_location", level |-> "segment",
                    track_no |-> track_no, track_segment_no |-> track_segment_no,
                    location |-> [latitude |-> latitude, longitude |-> longitude]]
          /\ pre' = gpx
          /\ UNCHANGED <<gpx, back>>

\* segment.get_duration()
SegmentGetDuration ==
    \E track_no \in 0..(Len(gpx.tracks) - 1) :
      \E track_segment_no \in 0..(Len(gpx.tracks[track_no + 1].segments) - 1) :
        /\ ret' = Returned(Segment_get_duration(
                      gpx.tracks[track_no + 1].segments[track_segment_no + 1]))
        /\ op' = [name |-> "get_duration", level |-> "segment",
                  track_no |-> track_no, track_segment_no |-> track_segment_no]
        /\ pre' = gpx
        /\ UNCHANGED <<gpx, back>>

NextQuery ==
    \/ GetBounds
    \/ GetTimeBounds
    \/ SegmentHas
    \/ SegmentGetNearestLocation
    \/ SegmentGetDuration

SpecQuery == InitQuery /\ [][NextQuery]_vars

(***************************************************************************)
(* Specification SpecNearest: get_nearest_locations.                       *)
(***************************************************************************)
\* The points are <<latitude, elevation, time, longitude>>.
InitNearest ==
    /\ \/ gpx \in LocatedDocs({<<0, None, None, 0>>, <<1, 1, None, 1>>, <<2, 0, None, 0>>})
       \/ \E points_1 \in PointSeqs(1, MaxPoints + 2, {<<0, None, None, 0>>, <<1, 1, None, 1>>}) :
            gpx = [GPX0 EXCEPT !.tracks = Layout(1, points_1, <<>>)]
    /\ op = NoOp
    /\ pre = gpx
    /\ ret = Returned(None)
    /\ back = NoBack

\* gpx.get_nearest_locations(location, threshold_distance), the location
\* with and without elevation, the threshold_distance 0, 1/4 and 1/2
GetNearestLocations ==
    \E location \in {[latitude |-> 0, longitude |-> 0, elevation |-> None],
                     [latitude |-> 2, longitude |-> 1, elevation |-> 1]} :
      \E threshold_distance \in {[num |-> 0, den |-> 1], [num |-> 1, den |-> 4],
                                 [num |-> 1, den |-> 2]} :
        /\ ret' = GPX_get_nearest_locations(gpx, location, threshold_distance)
        /\ op' = [name |-> "get_nearest_locations", level |-> "gpx",
                  track_no |-> None, track_segment_no |-> None,
                  location |-> location, threshold_distance |-> threshold_distance]
        /\ pre' = gpx
        /\ UNCHANGED <<gpx, back>>

NextNearest == GetNearestLocations

SpecNearest == InitNearest /\ [][NextNearest]_vars

(***************************************************************************)
(* Properties of split and join (specification Spec).                      *)
(***************************************************************************)
\* The track the last split or join acted on, before and after the call.
PreTrack == pre.tracks[op.track_no + 1]
PostTrack == gpx.tracks[op.track_no + 1]
\* The points of the segment the last split cut, before the call.
SplitPoints == PreTrack.segments[op.track_segment_no + 1].points

EmptySegments(track) == {i \in 1..Len(track.segments) : track.segments[i].points = <<>>}

\* C1: a split one of whose halves has no points (track_point_no is the index
\* of the last point of the segment) adds no empty segment: the track has as
\* many segments as before, and no more segments without points than before.
C1_EmptyHalfNotAdded ==
    (op.name = "split" /\ op.track_point_no = Len(SplitPoints) - 1)
    => /\ Len(PostTrack.segments) = Len(PreTrack.segments)
       /\ Cardinality(EmptySegments(PostTrack)) = Cardinality(EmptySegments(PreTrack))

JoinedAsClaimed(segments, a, b) ==
    Flatten([i \in 1..Len(segments) |->
        IF i = a + 1
        THEN <<GPXTrackSegment(segments[a + 1].points \o segments[b + 1].points)>>
        ELSE IF i = b + 1 THEN <<>> ELSE <<segments[i]>>])

\* C3: join(a, b) for distinct valid indices, b = 0 included, appends the points
\* of b to a and removes b (one segment less), the other segments unchanged and in
\* order; with b omitted it joins a with a + 1, and changes nothing when a is the
\* last segment.
C3_JoinAnyTwo ==
    op.name = "join"
    => LET a == op.track_segment_no
           b == op.track_segment_no_2
           before == PreTrack.segments
       IN IF b # None
          THEN /\ PostTrack.segments = JoinedAsClaimed(before, a, b)
               /\ Len(PostTrack.segments) = Len(before) - 1
          ELSE IF a = Len(before) - 1
          THEN PostTrack.segments = before
          ELSE PostTrack.segments = JoinedAsClaimed(before, a, a + 1)

(***************************************************************************)
(* Properties of reduce_points (specification SpecReduce).                 *)
(***************************************************************************)
\* The places <<track, segment>> (1-based) of the segments of a document.
Places(g) ==
    UNION {{<<t, i>> : i \in 1..Len(g.tracks[t].segments)} : t \in 1..Len(g.tracks)}
PointsAt(g, place) == g.tracks[place[1]].segments[place[2]].points

\* The tracks and segments are the same in number before and after the call.
SameShape ==
    /\ Len(gpx.tracks) = Len(pre.tracks)
    /\ \A t \in 1..Len(pre.tracks) :
          Len(gpx.tracks[t].segments) = Len(pre.tracks[t].segments)

\* C4 as stated: reduce_points at any level, min_distance >= 0, leaves no
\* segment with more points than before, and every segment that had points
\* still holds its first and its last point.
C4_KeepsFirstAndLast ==
    op.name = "reduce_points"
    => /\ SameShape
       /\ \A place \in Places(pre) :
            LET before == PointsAt(pre, place)
                after == PointsAt(gpx, place)
            IN /\ Len(after) <= Len(before)
               /\ before # <<>> =>
                    /\ before[1] \in Range(after)
                    /\ before[Len(before)] \in Range(after)

\* C4 as amended: reduce_points at any level, min_distance >= 0, leaves no
\* segment with more points than before, and every segment that had points
\* still starts with its first point.
C4_KeepsFirst ==
    op.name = "reduce_points"
    => /\ SameShape
       /\ \A place \in Places(pre) :
            LET before == PointsAt(pre, place)
                after == PointsAt(gpx, place)
            IN /\ Len(after) <= Len(before)
               /\ before # <<>> => (after # <<>> /\ after[1] = before[1])

\* A reduction that dropped points of a segment, its last point among them.
C4_Witness ==
    /\ op.name = "reduce_points"
    /\ ret.raised = NoneStr
    /\ \E place \in Places(pre) :
          /\ Len(PointsAt(gpx, place)) >= 2
          /\ Len(PointsAt(gpx, place)) < Len(PointsAt(pre, place))
          /\ PointsAt(pre, place)[Len(PointsAt(pre, place))] \notin Range(PointsAt(gpx, place))

(***************************************************************************)
(* Properties of add_elevation (specification SpecElevation).              *)
(***************************************************************************)
\* The last two calls were add_elevation(d) and add_elevation(-d), d # 0, on
\* the same document, track or segment.
AddedAndTakenBack ==
    /\ op.name = "add_elevation"
    /\ back.op.name = "add_elevation"
    /\ op.level = back.op.level
    /\ op.track_no = back.op.track_no
    /\ op.track_segment_no = back.op.track_segment_no
    /\ op.delta = -back.op.delta

Identities(points) == [i \in 1..Len(points) |-> points[i].id]

\* Neither call added, removed or moved a point.
SamePointsInPlace ==
    /\ SameShape
    /\ \A place \in Places(pre) :
          /\ Identities(PointsAt(gpx, place)) = Identities(PointsAt(pre, place))
          /\ Identities(PointsAt(pre, place)) = Identities(PointsAt(back.pre, place))

\* C5 as stated: add_elevation(d) followed by add_elevation(-d) gives every
\* point that had an elevation e exactly e again, leaves the points without
\* elevation without one, and adds, removes or moves no point.
C5_RestoresExactly ==
    AddedAndTakenBack
    => /\ SamePointsInPlace
       /\ \A i \in 1..Len(GPX_walk(back.pre)) :
             GPX_walk(gpx)[i].elevation = GPX_walk(back.pre)[i].elevation

\* C5 as amended: the elevation is e again exactly for every point whose sum
\* e + d was a float (no rounding in the first call); points without elevation
\* stay without one, and no point is added, removed or moved.
C5_RestoresWhenExact ==
    AddedAndTakenBack
    => /\ SamePointsInPlace
       /\ \A i \in 1..Len(GPX_walk(back.pre)) :
             LET e == GPX_walk(back.pre)[i].elevation
                 between == GPX_walk(pre)[i].elevation
                 now == GPX_walk(gpx)[i].elevation
             IN /\ e = None => now = None
                /\ (e # None /\ between = e + back.op.delta) => now = e

\* Both calls were made with d # 0 on a point whose elevation took the delta
\* without rounding.
C5_Witness ==
    /\ AddedAndTakenBack
    /\ op.delta # 0
    /\ op.level = "gpx"
    /\ \E i \in 1..Len(GPX_walk(back.pre)) :
          /\ GPX_walk(back.pre)[i].elevation # None
          /\ GPX_walk(pre)[i].elevation = GPX_walk(back.pre)[i].elevation + back.op.delta
    /\ \E i \in 1..Len(GPX_walk(back.pre)) : GPX_walk(back.pre)[i].elevation = None

(***************************************************************************)
(* Properties of smooth (specification SpecSmooth).                        *)
(***************************************************************************)
\* The segments the last call of smooth ran on.
Smoothed_places ==
    IF op.level = "gpx" THEN Places(pre)
    ELSE {<<op.track_no + 1, op.track_segment_no + 1>>}

\* C6: smooth with remove_extremes = False leaves every segment with the same
\* points in the same order (whatever vertical and horizontal are), and a
\* segment of 3 or fewer points is not changed at all in any mode.
C6_CountAndOrderPreserved ==
    op.name = "smooth"
    => /\ SameShape
       /\ \A place \in Places(pre) :
            LET before == PointsAt(pre, place)
                after == PointsAt(gpx, place)
            IN /\ ~op.remove_extremes => Identities(after) = Identities(before)
               /\ Len(before) <= 3 => after = before

\* A call without remove_extremes that changed a point of a segment of more
\* than 3 points.
C6_Witness ==
    /\ op.name = "smooth"
    /\ ~op.remove_extremes
    /\ \E place \in Smoothed_places :
          /\ Len(PointsAt(pre, place)) > 3
          /\ PointsAt(gpx, place) # PointsAt(pre, place)

\* C7: in every mode of smooth the first and the last point of each segment
\* are still its first and last point, with the latitude, longitude and
\* elevation they had.
C7_FirstAndLastUntouched ==
    op.name = "smooth"
    => /\ SameShape
       /\ \A place \in Places(pre) :
            LET before == PointsAt(pre, place)
                after == PointsAt(gpx, place)
            IN before # <<>>
               => /\ after # <<>>
                  /\ after[1] = before[1]
                  /\ after[Len(after)] = before[Len(before)]
                  /\ Len(before) >= 2 => Len(after) >= 2

\* A call with remove_extremes that dropped a point of a segment.
C7_Witness ==
    /\ op.name = "smooth"
    /\ op.remove_extremes
    /\ \E place \in Smoothed_places :
          /\ Len(PointsAt(gpx, place)) < Len(PointsAt(pre, place))
          /\ Len(PointsAt(gpx, place)) >= 2

(***************************************************************************)
(* Properties of get_moving_data (specification SpecMoving).               *)
(***************************************************************************)
\* The segments the last call went over.
Called_places ==
    IF op.level = "gpx" THEN Places(pre)
    ELSE IF op.level = "track" THEN {place \in Places(pre) : place[1] = op.track_no + 1}
    ELSE {<<op.track_no + 1, op.track_segment_no + 1>>}

\* The time, in ticks, from the first to the second point of each pair of
\* adjacent points of a segment that both have a time, summed.
Elapsed_ticks(points) ==
    SumSeq([i \in 1..(Len(points) - 1) |->
        IF points[i].time # None /\ points[i + 1].time # None
        THEN points[i + 1].time - points[i].time ELSE 0])

RECURSIVE SumOver(_, _)
SumOver(places, g) ==
    IF places = {} THEN 0
    ELSE LET place == CHOOSE place \in places : TRUE
         IN Elapsed_ticks(PointsAt(g, place)) + SumOver(places \ {place}, g)

\* C8: moving_time + stopped_time of get_moving_data is the time elapsed over
\* the pairs of adjacent points that both have a time, summed over the
\* segments of the segment, track or document the call is made on; pairs with
\* a point without time add nothing.
C8_TimesSumToElapsed ==
    op.name = "get_moving_data"
    => TicksPerSecond * (ret.value.moving_time + ret.value.stopped_time)
         = SumOver(Called_places, pre)

(***************************************************************************)
(* Properties of to_xml (specification SpecXml).                           *)
(***************************************************************************)
\* C9: to_xml with no version asked for and none in the document writes
\* version "1.1"; with no creator in the document it writes a default
\* creator that is not empty; and when the version asked for, or else the
\* document's, is neither "1.0" nor "1.1" the call raises GPXException and
\* gives no output.
C9_VersionAndCreatorDefaults ==
    op.name = "to_xml"
    => LET asked == IF TruthyStr(op.version) THEN op.version ELSE pre.version
       IN /\ ~TruthyStr(asked) => (ret.raised = NoneStr /\ ret.value.version = "1.1")
          /\ (ret.raised = NoneStr /\ ~TruthyStr(pre.creator))
                => TruthyStr(ret.value.creator)
          /\ (TruthyStr(asked) /\ asked \notin {"1.0", "1.1"})
                => (ret.raised = "GPXException" /\ ret.value = None)
          /\ (TruthyStr(asked) /\ asked \in {"1.0", "1.1"})
                => (ret.raised = NoneStr /\ ret.value.version = asked)

\* A call without version on a document without version and creator.
C9_Witness ==
    /\ op.name = "to_xml"
    /\ ~TruthyStr(op.version)
    /\ pre.version = NoneStr
    /\ pre.creator = NoneStr
    /\ ret.raised = NoneStr
    /\ ret.value.version = "1.1"

\* What a serialization wrote of the fields named, and the containers of a
\* tag it opened.
Written(out, names) == {k \in 1..Len(out) : out[k].kind = "field" /\ out[k].name \in names}
Opened(out, tag) == {k \in 1..Len(out) : out[k].kind = "open" /\ out[k].tag = tag}

\* C10: in a version 1.1 serialization a container whose required dependent
\* is empty is left out with everything nested in it, whatever else inside
\* it has a value: without author_link no link element is written in author
\* and none of author_link, author_link_text, author_link_type; without link
\* no link element in metadata and none of link, link_text, link_type; and a
\* track point without link gets no link element and no link, link_text,
\* link_type.
C10_RequiredDependentEmpty ==
    (op.name = "to_xml" /\ ret.raised = NoneStr /\ ret.value.version = "1.1")
    => /\ ~TruthyStr(pre.author_link)
            => /\ Written(ret.value.gpx,
                          {"author_link", "author_link_text", "author_link_type"}) = {}
               /\ Cardinality(Opened(ret.value.gpx, "link"))
                    = IF TruthyStr(pre.link) THEN 1 ELSE 0
       /\ ~TruthyStr(pre.link)
            => /\ Written(ret.value.gpx, {"link", "link_text", "link_type"}) = {}
               /\ Cardinality(Opened(ret.value.gpx, "link"))
                    = IF TruthyStr(pre.author_link) THEN 1 ELSE 0
       /\ \A i \in 1..Len(GPX_walk(pre)) :
            ~TruthyStr(GPX_walk(pre)[i].link)
            => /\ Written(ret.value.trkpt[i], {"link", "link_text", "link_type"}) = {}
               /\ Opened(ret.value.trkpt[i], "link") = {}

\* A version 1.1 serialization of a document with author_link_text and
\* author_name but no author_link: the author element is written, the link
\* element in it is not.
C10_Witness ==
    /\ op.name = "to_xml"
    /\ ret.raised = NoneStr
    /\ ret.value.version = "1.1"
    /\ ~TruthyStr(pre.author_link)
    /\ TruthyStr(pre.author_link_text)
    /\ TruthyStr(pre.author_name)
    /\ Opened(ret.value.gpx, "author") # {}
    /\ \E i \in 1..Len(GPX_walk(pre)) :
          ~TruthyStr(GPX_walk(pre)[i].link) /\ TruthyStr(GPX_walk(pre)[i].link_text)

(***************************************************************************)
(* Properties of the round trip through to_xml and parse (SpecXml).        *)
(***************************************************************************)
\* The field descriptors of a sequence.
Declared(fields) == {i \in 1..Len(fields) : fields[i].kind = "field"}

\* The value of an attribute up to the formatting of times.
Canonical(instance, name) ==
    IF name = "time" THEN Formatted_time(instance.time) ELSE instance[name]

\* The attributes the descriptors declare are equal in the two instances.
Declared_equal(read, instance, fields) ==
    \A i \in Declared(fields) : read[fields[i].name] = Canonical(instance, fields[i].name)

\* The required dependents of the containers the descriptor at i lies in.
RECURSIVE Required_above(_, _, _, _)
Required_above(fields, i, k, stack) ==
    IF k >= i THEN UNION {stack[j] : j \in 1..Len(stack)}
    ELSE Required_above(fields, i, k + 1,
            IF fields[k].kind = "open"
            THEN Append(stack, {fields[k].dependents[j].name : j \in
                    {j \in 1..Len(fields[k].dependents) : fields[k].dependents[j].required}})
            ELSE IF fields[k].kind = "close" THEN SubSeq(stack, 1, Len(stack) - 1)
            ELSE stack)

\* The attributes the descriptors declare are equal in the two instances,
\* but for those in a container with an empty required dependent, which are
\* read as None.
Declared_equal_unless_suppressed(read, instance, fields) ==
    \A i \in Declared(fields) :
        IF \A r \in Required_above(fields, i, 1, <<>>) : HasValue(instance, r)
        THEN read[fields[i].name] = Canonical(instance, fields[i].name)
        ELSE ~HasValue(read, fields[i].name)

\* The document read back has the tracks, segments and points of the
\* document, and Equal holds of each entity and the one read back.
Round_trip(read, g, version, Equal(_, _, _)) ==
    /\ Equal(read, g, IF version = "1.1" THEN gpx_11_fields ELSE gpx_10_fields)
    /\ Len(read.tracks) = Len(g.tracks)
    /\ \A t \in 1..Len(g.tracks) :
          /\ Equal(read.tracks[t], g.tracks[t],
                   IF version = "1.1" THEN Track_gpx_11_fields ELSE Track_gpx_10_fields)
          /\ Len(read.tracks[t].segments) = Len(g.tracks[t].segments)
          /\ \A i \in 1..Len(g.tracks[t].segments) :
                /\ Len(read.tracks[t].segments[i].points) = Len(g.tracks[t].segments[i].points)
                /\ \A k \in 1..Len(g.tracks[t].segments[i].points) :
                      Equal(read.tracks[t].segments[i].points[k], g.tracks[t].segments[i].points[k],
                            IF version = "1.1" THEN GPX_11_POINT_FIELDS
                            ELSE GPX_TRACK_POINT_FIELDS)

Bounded_run(points, a, b) ==
    /\ 1 <= a /\ a + 1 < b /\ b <= Len(points)
    /\ points[a].elevation # None
    /\ points[b].elevation # None
    /\ \A i \in (a + 1)..(b - 1) : points[i].elevation = None

\* The 3D length of the points from a to b.
Run_length(points, a, b) == SumSeq([i \in 1..(b - a) |-> distance_3d(points[a + i], points[a + i - 1])])

C13_InvalidArgumentsRejected ==
    (op.name = "reduce_points" /\ op.level = "gpx")
    => /\ ((op.max_points_no = None /\ op.min_distance = None)
             \/ (op.max_points_no # None /\ op.max_points_no < 2))
          => (ret = Raised("ValueError") /\ gpx = pre)
       /\ (/\ op.max_points_no # None
           /\ op.max_points_no >= 2
           /\ Len(GPX_walk(pre)) <= op.max_points_no
           /\ op.min_distance = None)
          => (ret = Returned(None) /\ gpx = pre)

\* A call with max_points_no = 1 and a min_distance on a document of
\* MaxPoints points that was refused, the points left as they were.
C13_Witness ==
    /\ op.name = "reduce_points" /\ op.level = "gpx"
    /\ op.max_points_no = 1
    /\ op.min_distance = 1
    /\ Len(GPX_walk(pre)) = MaxPoints
    /\ ret = Raised("ValueError")
    /\ gpx = pre

(***************************************************************************)
(* Properties of fill_time_data_with_regular_intervals (SpecFill).         *)
(***************************************************************************)
\* C14: fill_time_data_with_regular_intervals with force=False on a
\* document in which some track point has a time raises GPXException and
\* overwrites no time.
C14_UnforcedFillRefused ==
    (/\ op.name = "fill_time_data_with_regular_intervals"
     /\ ~op.force
     /\ \E i \in 1..Len(GPX_walk(pre)) : GPX_walk(pre)[i].time # None)
    => (ret.raised = "GPXException" /\ gpx = pre)

(***************************************************************************)
(* Properties of the calls that read a document (SpecQuery).               *)
(***************************************************************************)
\* The points of the segment the last call was made on.
Called_points == pre.tracks[op.track_no + 1].segments[op.track_segment_no + 1].points

\* C15: GPXTrackSegment.get_nearest_location(location) on a segment with
\* points returns the point at the least 2D distance from location and its
\* index in the segment, the lowest index where several are as near.
C15_NearestPointAndIndex ==
    (op.name = "get_nearest_location" /\ Len(Called_points) > 0)
    => \E i \in 1..Len(Called_points) :
         /\ \A j \in 1..Len(Called_points) :
              distance_2d(Called_points[i], op.location)
                <= distance_2d(Called_points[j], op.location)
         /\ \A j \in 1..(i - 1) :
              distance_2d(Called_points[i], op.location)
                < distance_2d(Called_points[j], op.location)
         /\ ret.value.location = Called_points[i].id
         /\ ret.value.track_point_no = i - 1

\* The points in the scope of the last call: a segment, a track or the
\* document.
Scope_points ==
    IF op.level = "gpx" THEN GPX_walk(pre)
    ELSE IF op.level = "track" THEN Track_walk(pre.tracks[op.track_no + 1])
    ELSE Called_points

\* The least and the greatest of a set of numbers that is not empty.
Least(values) == CHOOSE x \in values : \A y \in values : x <= y
Greatest(values) == CHOOSE x \in values : \A y \in values : x >= y

\* C16: get_bounds of a track and of the document returns the least and
\* the greatest latitude and longitude of all the points of all segments,
\* 0 and negative values included, for any mix of empty and non-empty
\* segments and tracks; without points all four fields are None.
C16_BoundsAreMinMax ==
    (op.name = "get_bounds" /\ op.level \in {"track", "gpx"})
    => /\ ret.raised = NoneStr
       /\ LET latitudes == {Scope_points[i].latitude : i \in 1..Len(Scope_points)}
              longitudes == {Scope_points[i].longitude : i \in 1..Len(Scope_points)}
          IN ret.value = IF Len(Scope_points) = 0 THEN GPXBounds(None, None, None, None)
                         ELSE GPXBounds(Least(latitudes), Greatest(latitudes),
                                        Least(longitudes), Greatest(longitudes))

\* The point has a time.
Timed(point) == point.time # None

\* C17 as stated: get_time_bounds of a segment, a track and the document
\* returns the earliest time of the points that have one as start_time and
\* the latest as end_time, whatever their order; both are None when no
\* point has a time.
C17_TimeBoundsAreMinMax ==
    op.name = "get_time_bounds"
    => LET times == {Scope_points[i].time : i \in 1..Len(Scope_points)} \ {None}
       IN ret.value = IF times = {} THEN TimeBounds(None, None)
                      ELSE TimeBounds(Least(times), Greatest(times))

\* C17 amended: get_time_bounds of a segment, a track and the document
\* returns the time of the first point that has one, in the order of the
\* walk, as start_time and the time of the last such point as end_time;
\* these are the earliest and the latest time when the times do not
\* decrease along the walk; both are None when no point has a time.
C17_TimeBoundsAreFirstAndLast ==
    op.name = "get_time_bounds"
    => LET timed == SelectSeq(Scope_points, Timed)
           times == {timed[i].time : i \in 1..Len(timed)}
       IN /\ ret.value = IF timed = <<>> THEN TimeBounds(None, None)
                         ELSE TimeBounds(timed[1].time, timed[Len(timed)].time)
          /\ (/\ timed # <<>>
              /\ \A i \in 1..(Len(timed) - 1) : timed[i].time <= timed[i + 1].time)
             => ret.value = TimeBounds(Least(times), Greatest(times))

\* A call on a document whose timed points are in two segments, with an
\* untimed point among them and the times decreasing.
C17_Witness ==
    /\ op.name = "get_time_bounds" /\ op.level = "gpx"
    /\ Len(Scope_points) = MaxPoints
    /\ \E i \in 1..Len(Scope_points) : ~Timed(Scope_points[i])
    /\ \A place \in Places(pre) : \E i \in 1..Len(PointsAt(pre, place)) : Timed(PointsAt(pre, place)[i])
    /\ ret.value.start_time # None
    /\ ret.value.start_time > ret.value.end_time

\* C18: has_times (has_elevations) of a segment with points returns true
\* only if the first and the last point have a time (an elevation) and at
\* least 75% of the points have one.
C18_TrueOnlyWithFirstAndLast ==
    (op.name = "has" /\ Len(Called_points) > 0 /\ ret.value = "True")
    => LET n == Len(Called_points)
           having == {i \in 1..n : Called_points[i][op.attribute] # None}
       IN /\ 1 \in having
          /\ n \in having
          /\ 4 * Cardinality(having) >= 3 * n

(***************************************************************************)
(* The scan of GPXTrackSegment.reduce_points (SpecReduce).                 *)
(***************************************************************************)
\* C19: GPXTrackSegment.reduce_points(min_distance) keeps point 0, keeps
\* each later point if and only if its 3D distance from the point kept last
\* before it is at least min_distance, leaves the kept points in their
\* order, and neither repeats nor creates a point.
C19_GreedyForwardScan ==
    (op.name = "reduce_points" /\ op.level = "segment")
    => LET before == Called_points
           after == gpx.tracks[op.track_no + 1].segments[op.track_segment_no + 1].points
           kept == {i \in 1..Len(before) : before[i] \in Range(after)}
       IN /\ \A j \in 1..Len(after) : after[j] \in Range(before)
          /\ Len(after) = Cardinality(kept)
          /\ \A j \in 1..(Len(after) - 1) :
                \E i_1 \in kept, i_2 \in kept :
                    i_1 < i_2 /\ before[i_1] = after[j] /\ before[i_2] = after[j + 1]
          /\ before # <<>> => 1 \in kept
          /\ \A i \in 2..Len(before) :
                i \in kept
                <=> distance_3d(before[Greatest({j \in kept : j < i})], before[i])
                      >= op.min_distance

\* A scan that dropped the second of three points and kept the third, which
\* is nearer than min_distance to the second.
C19_Witness ==
    /\ op.name = "reduce_points" /\ op.level = "segment"
    /\ Len(Called_points) = 3
    /\ gpx.tracks[op.track_no + 1].segments[op.track_segment_no + 1].points
         = <<Called_points[1], Called_points[3]>>
    /\ distance_3d(Called_points[2], Called_points[3]) < op.min_distance

(***************************************************************************)
(* smooth with remove_extremes (SpecSmooth).                               *)
(***************************************************************************)
\* C20: smooth with remove_extremes = True drops an interior point only
\* when its elevation differs from both neighbours by the elevation
\* threshold (5 x the average elevation delta of the segment) or more and
\* its smoothed elevation or position is displaced by the distance
\* threshold (1.75 x the average distance between neighbours) or more; any
\* other interior point is kept, and a kept point is not changed.
C20_RemovedOnlyBeyondBothThresholds ==
    (op.name = "smooth" /\ op.remove_extremes)
    => \A place \in Smoothed_places :
         LET before == PointsAt(pre, place)
             after == PointsAt(gpx, place)
             avg_distance == Smooth_avg_distance(before, TRUE)
             avg_elevation_delta == Smooth_avg_elevation_delta(before, TRUE)
         IN Len(before) > 3
            => \A i \in 2..(Len(before) - 1) :
                 LET previous == before[i - 1]
                     point == before[i]
                     next == before[i + 1]
                     elevations == /\ previous.elevation # None
                                   /\ point.elevation # None
                                   /\ next.elevation # None
                     beyond_elevation ==
                         /\ elevations
                         /\ ~Below_elevation_threshold(
                                Abs(point.elevation - previous.elevation), avg_elevation_delta)
                         /\ ~Below_elevation_threshold(
                                Abs(point.elevation - next.elevation), avg_elevation_delta)
                     beyond_distance ==
                         \/ /\ elevations
                            /\ ~Below_2d_threshold(
                                   Abs(point.elevation
                                       - Smoothed(previous.elevation, point.elevation,
                                                  next.elevation)),
                                   avg_distance)
                         \/ ~Below_2d_threshold(
                                distance(point.latitude, point.longitude,
                                         Smoothed(previous.latitude, point.latitude,
                                                  next.latitude),
                                         Smoothed(previous.longitude, point.longitude,
                                                  next.longitude)),
                                avg_distance)
                 IN IF beyond_elevation /\ beyond_distance
                    THEN \A j \in 1..Len(after) : after[j].id = point.id => after[j] = point
                    ELSE point \in Range(after)

(***************************************************************************)
(* The intervals of get_moving_data (SpecMoving), for a call on a segment. *)
(***************************************************************************)
\* Both points of the interval from point i to point i + 1 have a time.
Interval_timed(points, i) == points[i].time # None /\ points[i + 1].time # None

\* The distance of the interval: 3D when both elevations are known.
Interval_distance(points, i) ==
    IF points[i].elevation # None /\ points[i + 1].elevation # None
    THEN distance_2d(points[i + 1], points[i])
         + Abs(points[i + 1].elevation - points[i].elevation)
    ELSE distance_2d(points[i + 1], points[i])

\* The threshold of the last call, in km/h.
Called_threshold ==
    IF op.stopped_speed_threshold = None THEN 1 ELSE op.stopped_speed_threshold

\* The speed of the interval, metres over seconds times 3.6, is below the
\* threshold.
Interval_below(points, i) ==
    36 * Interval_distance(points, i) * TicksPerSecond
      < 10 * Called_threshold * (points[i + 1].time - points[i].time)

\* Every timed interval lasts a whole number of seconds, not 0, and has no
\* elevation 0 beside a known elevation.
Intervals_plain(points) ==
    \A i \in 1..(Len(points) - 1) :
        Interval_timed(points, i)
        => /\ points[i + 1].time > points[i].time
           /\ (points[i + 1].time - points[i].time) % TicksPerSecond = 0
           /\ ~ /\ points[i].elevation # None
                /\ points[i + 1].elevation # None
                /\ 0 \in {points[i].elevation, points[i + 1].elevation}

\* C21: get_moving_data adds a timed interval to stopped_time and
\* stopped_distance exactly when its speed is below the threshold (1 km/h
\* if none is given), and every other timed interval, one at the threshold
\* included, to moving_time and moving_distance.
C21_StoppedBelowThreshold ==
    (op.name = "get_moving_data" /\ op.level = "segment" /\ Intervals_plain(Called_points))
    => LET points == Called_points
           timed == {i \in 1..(Len(points) - 1) : Interval_timed(points, i)}
           Ticks(below) == SumSeq([i \in 1..(Len(points) - 1) |->
               IF i \in timed /\ Interval_below(points, i) = below
               THEN points[i + 1].time - points[i].time ELSE 0])
           Metres(below) == SumSeq([i \in 1..(Len(points) - 1) |->
               IF i \in timed /\ Interval_below(points, i) = below
               THEN Interval_distance(points, i) ELSE 0])
       IN /\ TicksPerSecond * ret.value.stopped_time = Ticks(TRUE)
          /\ ret.value.stopped_distance = Metres(TRUE)
          /\ TicksPerSecond * ret.value.moving_time = Ticks(FALSE)
          /\ ret.value.moving_distance = Metres(FALSE)

\* C22: the distance get_moving_data adds for a timed interval is the 3D
\* distance when both points have an elevation, 0 included, and the 2D
\* distance only when one of them has none.
C22_DistanceIs3dWhenKnown ==
    (op.name = "get_moving_data" /\ op.level = "segment")
    => ret.value.moving_distance + ret.value.stopped_distance
         = SumSeq([i \in 1..(Len(Called_points) - 1) |->
               IF Interval_timed(Called_points, i)
               THEN Interval_distance(Called_points, i) ELSE 0])

\* C23: the list of speeds get_moving_data builds for a segment has no entry
\* for the first interval nor for the last one, so at most one entry for each
\* timed interval between them, and without an entry max_speed is None.
C23_NoSpeedOfFirstAndLastInterval ==
    (op.name = "get_moving_data" /\ op.level = "segment")
    => LET points == Called_points
           speeds_and_distances ==
               Moving_data_loop(points, 2, MovingData(0, 0, 0, 0, <<>>),
                                Called_threshold).speeds_and_distances
           between == {i \in 2..(Len(points) - 2) : Interval_timed(points, i)}
       IN /\ Len(speeds_and_distances) <= Cardinality(between)
          /\ speeds_and_distances = <<>> => ret.value.max_speed = None
          /\ between = {} => ret.value.max_speed = None

(***************************************************************************)
(* Properties of the fillers of missing data (SpecGaps).                   *)
(***************************************************************************)
\* The data a filler adds, by the name of the call.
Filled_attribute ==
    CASE op.name = "add_missing_elevations" -> "elevation"
      [] op.name = "add_missing_times" -> "time"
      [] op.name = "add_missing_speeds" -> "speed"

\* The point at i lies in a run of points without the data, between two
\* points of the same segment that have it.
In_bounded_run(points, i, attribute) ==
    \E a \in 1..(i - 1), b \in (i + 1)..Len(points) :
        /\ points[a][attribute] # None
        /\ points[b][attribute] # None
        /\ \A j \in (a + 1)..(b - 1) : points[j][attribute] = None

\* C24: add_missing_elevations, add_missing_times and add_missing_speeds
\* give a value only to the points of a run without the data that has a
\* point with the data on each side in the same segment; the points of a
\* run that starts at the first point of a segment or reaches the last, and
\* the points that have the data, stay as they were.
C24_OnlyBoundedRunsFilled ==
    op.name \in {"add_missing_elevations", "add_missing_times", "add_missing_speeds"}
    => /\ SameShape
       /\ \A place \in Places(pre) :
            LET before == PointsAt(pre, place)
                after == PointsAt(gpx, place)
            IN /\ Len(after) = Len(before)
               /\ \A i \in 1..Len(before) :
                    after[i] # before[i] => In_bounded_run(before, i, Filled_attribute)

(***************************************************************************)
(* Properties of GPX.get_nearest_locations (SpecNearest).                   *)
(***************************************************************************)
\* The points of the document the call was made on, in document order.
Called_walk == Numbered_points(pre)

\* The sum of the 3D lengths of the segments of the document.
Total_distance ==
    SumSeq([k \in 1..Len(Called_walk) |->
              IF Called_walk[k].point_no > 0
              THEN distance_3d(Called_walk[k].point, Called_walk[k - 1].point) ELSE 0])

\* The 3D distance from the location of the call to the point at k.
Distance_to(k) == distance_3d(op.location, Called_walk[k].point)

\* The point at k is nearer than the fraction of the total distance.
Near(k) ==
    Distance_to(k) * op.threshold_distance.den < Total_distance * op.threshold_distance.num

\* The maximal runs a..b of near points in document order.
Near_runs ==
    {run \in (1..Len(Called_walk)) \X (1..Len(Called_walk)) :
        /\ run[1] <= run[2]
        /\ \A k \in run[1]..run[2] : Near(k)
        /\ (run[1] > 1 => ~Near(run[1] - 1))
        /\ (run[2] < Len(Called_walk) => ~Near(run[2] + 1))}

\* The place in document order of the point an entry names.
Entry_place(entry) ==
    CHOOSE k \in 1..Len(Called_walk) :
        /\ Called_walk[k].track_no = entry.track_no
        /\ Called_walk[k].segment_no = entry.segment_no
        /\ Called_walk[k].point_no = entry.point_no

\* C25: GPX.get_nearest_locations(location, threshold_distance), with a
\* threshold_distance other than 0, returns one entry for each maximal run,
\* in document order, of points whose 3D distance to the location is below
\* threshold_distance times the total distance of the document, and no
\* other entry; the entry names, by track, segment and point number, the
\* point of its run nearest to the location, the earliest of them when
\* several are as near; a document without points gives an empty result.
C25_OneEntryPerNearRun ==
    (op.name = "get_nearest_locations" /\ op.threshold_distance.num # 0)
    => /\ ret.raised = NoneStr
       /\ Len(ret.value) = Cardinality(Near_runs)
       /\ \A k \in 1..Len(ret.value) :
            /\ \E m \in 1..Len(Called_walk) :
                  /\ Called_walk[m].track_no = ret.value[k].track_no
                  /\ Called_walk[m].segment_no = ret.value[k].segment_no
                  /\ Called_walk[m].point_no = ret.value[k].point_no
            /\ \E run \in Near_runs :
                  LET m == Entry_place(ret.value[k])
                  IN /\ run[1] <= m /\ m <= run[2]
                     /\ \A j \in run[1]..run[2] : Distance_to(m) <= Distance_to(j)
                     /\ \A j \in run[1]..(m - 1) : Distance_to(m) < Distance_to(j)
            /\ \A j \in 1..(k - 1) : Entry_place(ret.value[j]) < Entry_place(ret.value[k])
       /\ (Called_walk = <<>> => ret.value = <<>>)

\* A call that returns two entries, the first for a run of several points
\* whose first and last are as near as each other.
C25_Witness ==
    /\ op.name = "get_nearest_locations" /\ op.threshold_distance.num # 0
    /\ ret.raised = NoneStr
    /\ Len(ret.value) = 2
    /\ \E run \in Near_runs :
          /\ Entry_place(ret.value[1]) = run[1]
          /\ run[1] < run[2]
          /\ Distance_to(run[1]) = Distance_to(run[2])

(***************************************************************************)
(* Properties of repeated to_xml calls (SpecXml).                          *)
(***************************************************************************)
\* The version a to_xml call serializes with: the one asked for, else the
\* one of the document, else "1.1".
Called_version ==
    IF TruthyStr(op.version) THEN op.version
    ELSE IF TruthyStr(pre.version) THEN pre.version ELSE "1.1"

\* C26: in any sequence of to_xml calls on a document whose
\* schema_locations the caller never sets, whatever the versions asked for,
\* the xsi:schemaLocation list each call writes is made from the version
\* that call serializes with.
C26_SchemaLocationOfTheCall ==
    (op.name = "to_xml" /\ ret.raised = NoneStr)
    => ret.value.schemaLocation =
          <<Namespace(version_path(Called_version)), Schema(version_path(Called_version))>>

\* C28: a to_xml call that fails on an invalid version leaves the version,
\* the creator, the nsmap, the schema_locations and the rest of the
\* document as they were; a call that succeeds leaves the version "1.0" or
\* "1.1" and a creator that is not empty.
C28_FailedCallChangesNothing ==
    op.name = "to_xml"
    => /\ ret.raised # NoneStr
          => /\ ret.raised = "GPXException"
             /\ Called_version \notin {"1.0", "1.1"}
             /\ gpx.version = pre.version
             /\ gpx.creator = pre.creator
             /\ gpx.nsmap = pre.nsmap
             /\ gpx.schema_locations = pre.schema_locations
             /\ gpx = pre
       /\ ret.raised = NoneStr
          => /\ gpx.version \in {"1.0", "1.1"}
             /\ gpx.version = Called_version
             /\ TruthyStr(gpx.creator)

\* A call for version "2.0" that fails on a document an earlier call gave
\* the version "1.1" and the default creator.
C28_Witness ==
    /\ op.name = "to_xml" /\ op.version = "2.0"
    /\ ret.raised = "GPXException"
    /\ gpx.version = "1.1"
    /\ gpx.creator = DefaultCreator
    /\ gpx.schema_locations # <<>>

(***************************************************************************)
(* Properties of GPXTrackSegment.get_duration (SpecQuery).                 *)
(***************************************************************************)
\* C27: segment.get_duration() takes the second point when the first has
\* no time and the point before the last when the last has none; when the
\* segment has fewer than two points with a time, or one of the two points
\* taken has none, it returns None; otherwise it returns the number of
\* seconds from the first point taken to the last, which is not negative.
C27_DurationOrNone ==
    (op.name = "get_duration" /\ op.level = "segment")
    => LET points == Called_points
           timed == {i \in 1..Len(points) : points[i].time # None}
           first == IF points[1].time = None THEN points[2] ELSE points[1]
           last == IF points[Len(points)].time = None
                   THEN points[Len(points) - 1] ELSE points[Len(points)]
       IN /\ ret.raised = NoneStr
          /\ IF Cardinality(timed) < 2 THEN ret.value = None
             ELSE IF first.time = None \/ last.time = None THEN ret.value = None
             ELSE /\ ret.value >= 0
                  /\ ret.value = total_seconds(last.time - first.time)

(***************************************************************************)
(* Properties of a split followed by a join (SpecRestore).                 *)
(***************************************************************************)
\* The point sequences of the segments of a track.
Point_lists(track) == [i \in 1..Len(track.segments) |-> track.segments[i].points]

Given_no ==
    (IF op.start_time # None THEN 1 ELSE 0) + (IF op.time_delta # None THEN 1 ELSE 0)
    + (IF op.end_time # None THEN 1 ELSE 0)

\* C30: fill_time_data_with_regular_intervals given fewer than two of
\* start_time, time_delta and end_time, or a start_time later than end_time,
\* raises GPXException and leaves the time of the document and of every
\* point as it was.  A call that succeeds gives the points, in document
\* order across segments and tracks, the times t0 + i * d for i = 0, 1, ...:
\* t0 is start_time when it is given, else end_time less d for each point
\* after the first; d is time_delta, or, when start_time and end_time are
\* both given, the span from start_time to end_time divided by the number
\* of points less one, to the nearest tick.
C30_FillOutcome ==
    op.name = "fill_time_data_with_regular_intervals"
    => LET before == GPX_walk(pre)
           after == GPX_walk(gpx)
           n == Len(before)
       IN /\ Len(after) = n
          /\ (\/ Given_no < 2
              \/ (op.start_time # None /\ op.end_time # None /\ op.start_time > op.end_time))
             => /\ ret.raised = "GPXException"
                /\ gpx.time = pre.time
                /\ \A i \in 1..n : after[i].time = before[i].time
          /\ ret.raised = NoneStr
             => IF op.start_time # None /\ op.end_time # None
                THEN /\ \A i \in 1..n : i = 1 => after[i].time = op.start_time
                     /\ n < 2 \/ \E d \in 0..(op.end_time - op.start_time) :
                          /\ 2 * Abs((n - 1) * d - (op.end_time - op.start_time)) <= n - 1
                          /\ \A i \in 1..n : after[i].time = op.start_time + (i - 1) * d
                ELSE IF op.start_time # None
                THEN \A i \in 1..n : after[i].time = op.start_time + (i - 1) * op.time_delta
                ELSE \A i \in 1..n :
                        after[i].time = op.end_time - (n - 1) * op.time_delta
                                        + (i - 1) * op.time_delta

\* A call with start_time 0, time_delta 1 and end_time 4 that succeeds on a
\* document of three points, one in a segment and two in another: the
\* points get the times 0, 2 and 4.
C30_Witness ==
    /\ op.name = "fill_time_data_with_regular_intervals"
    /\ ret.raised = NoneStr
    /\ op.start_time = 0 /\ op.time_delta = 1 /\ op.end_time = 4
    /\ Len(GPX_walk(gpx)) = 3
    /\ \E place \in Places(gpx) : Len(PointsAt(gpx, place)) = 1 /\ PointsAt(gpx, place)[1].time = 0
    /\ \E place \in Places(gpx) : Len(PointsAt(gpx, place)) = 2 /\ PointsAt(gpx, place)[2].time = 4

\* C30 as stated: the failures as above, and a call that succeeds gives the
\* first point the start_time it was given and the point i the time
\* start_time + i * time_delta, with the time_delta it was given.
C30_FillAsStated ==
    op.name = "fill_time_data_with_regular_intervals"
    => LET before == GPX_walk(pre)
           after == GPX_walk(gpx)
           n == Len(before)
       IN /\ Len(after) = n
          /\ (\/ Given_no < 2
              \/ (op.start_time # None /\ op.end_time # None /\ op.start_time > op.end_time))
             => /\ ret.raised = "GPXException"
                /\ gpx.time = pre.time
                /\ \A i \in 1..n : after[i].time = before[i].time
          /\ (ret.raised = NoneStr /\ op.start_time # None)
             => \A i \in 1..n : i = 1 => after[i].time = op.start_time
          /\ (ret.raised = NoneStr /\ op.start_time # None /\ op.time_delta # None)
             => \A i \in 1..n : after[i].time = op.start_time + (i - 1) * op.time_delta

====
